---- MODULE Spec2Model ----
(***************************************************************************)
(* Rules engine and game-state machine of the chess engine                 *)
(* (src/src/core, src/src/pieces).                                         *)
(*                                                                         *)
(* Conventions of the model                                                *)
(*  - A square is a pair <<row, col>>, row 0 at the top (rank 8); a piece  *)
(*    is an identifier, its fields live in board.obj.                      *)
(*  - A PieceType / PieceColor member is modelled by its enum value        *)
(*    ("pawn", "white", ...).  The code compares piece_type with the       *)
(*    strings "PAWN", "BISHOP", "KNIGHT" in game_state.py; an enum member  *)
(*    never equals a str, and likewise "pawn" # "PAWN" here.               *)
(*  - GameRules builds its moves as Move(start, end), leaving out the      *)
(*    required moving_piece field; as written the call raises TypeError.   *)
(*    The model reads it as the move of the occupant of the start square,  *)
(*    the only value Move._validate_move accepts.                          *)
(*  - Board.make_move, Board.undo_move, Board.get_king, Board.last_move,   *)
(*    GameState.get_legal_moves, Piece.get_move_directions and             *)
(*    Piece.can_move_multiple_steps are called by the sources but defined  *)
(*    in none of them; they are modelled from the design document.         *)
(*  - GameRules._get_path_squares does not return for a move that is not   *)
(*    along a row, column or diagonal; callers hand in aligned moves (or   *)
(*    knight moves, which skip the path test).                             *)
(*  - Start positions keep an unmoved king off the c and g files, where    *)
(*    _get_castling_moves would build a move from a square to itself.      *)
(*  - The search strategies (src/src/ai) call GameState.clone, get_result, *)
(*    undo_move and the clock test is_time_up, and use is_game_over as a   *)
(*    method; none of the four is defined in the sources.  clone,          *)
(*    get_result and is_time_up follow the design document, undo_move is   *)
(*    read as undo_last_move and is_game_over() as the property.           *)
(*  - In the MCTS specification a GameState is an object with a number, so *)
(*    that two nodes holding the same object can be told from two nodes    *)
(*    holding equal copies; results are counted in half points.            *)
(*  - A list the code only iterates over or draws from at random is kept   *)
(*    as a set.                                                            *)
(*  - is_square_attacked and is_valid_castling call each other through     *)
(*    get_legal_moves.  The operators of that name follow the calls as they*)
(*    are and are used on boards where the chain ends; the attack          *)
(*    specification follows the chain with a bound on its nesting and      *)
(*    reports RecursionError where the bound is reached.                   *)
(***************************************************************************)
EXTENDS Integers, Sequences, FiniteSets, TLC

\* Bound on the number of make_move / undo_last_move calls in a run.
MaxCalls == 3

\* Bound on the number of plies in the repetition specification.
RepPlies == 12

\* Bound on the number of calls in the material specification.
MaterialCalls == 2

\* Bound on the number of calls in the en passant specification.
EpCalls == 4

\* Bound on the number of plies in the castling specification.
CastlePlies == 2

\* Bound on the number of Move constructions in a run.
MoveCalls == 1

\* Bound on the number of calls in the search-strategy specification.
AICalls == 2

\* Depth of the game trees the alpha-beta search is run on.
TreeDepth == 2

\* Bound on the number of Board calls in the board specification.
BoardCalls == 3

\* Calls made on the GameState a negamax search runs on.
SearchCalls == 2

\* Largest depth handed to NegamaxStrategy._negamax on a GameState.
SearchDepth == 2

\* Bound on the number of calls in the pawn-move specification.
PawnCalls == 2

\* Bound on the number of calls in the castling-rights specification.
RightsCalls == 3

\* Bound on the number of calls in the attack specification.
AttackCalls == 1

\* Number of is_square_attacked calls that may be nested before the
\* interpreter gives up with RecursionError.
StackLimit == 3

\* Largest simulation cap (max_simulations) of a search.
MaxSimulations == 3

----------------------------------------------------------------------------
\* pieces/piece.py : PieceColor, PieceType

WHITE == "white"
BLACK == "black"
PieceColor == {WHITE, BLACK}

opposite(color) == IF color = WHITE THEN BLACK ELSE WHITE

PAWN == "pawn"
KNIGHT == "knight"
BISHOP == "bishop"
ROOK == "rook"
QUEEN == "queen"
KING == "king"
PieceType == {PAWN, KNIGHT, BISHOP, ROOK, QUEEN, KING}

\* core/game_state.py : GameStatus, GamePhase
ACTIVE == "active"
CHECK == "check"
CHECKMATE == "checkmate"
STALEMATE == "stalemate"
DRAW == "draw"

OPENING == "opening"
MIDDLEGAME == "middlegame"
ENDGAME == "endgame"

----------------------------------------------------------------------------
\* core/square.py, core/board.py : the grid

Squares == (0..7) \X (0..7)

\* Piece.square of a detached piece, Square.piece of an empty square.
NoSquare == <<>>
NoPiece == 0

is_valid_position(row, col) == 0 <= row /\ row < 8 /\ 0 <= col /\ col < 8

is_occupied(b, sq) == b.squares[sq] # NoPiece

get_pieces(b, color) == b.pieces[color]

\* Board.__str__ : every square prints its piece (colour, type and the
\* square itself) or '.'; two boards print alike iff the same colour and type
\* stand on the same squares.  Piece identity and has_moved are not printed.
BoardStr(b) ==
    {<<sq, b.obj[b.squares[sq]].color, b.obj[b.squares[sq]].piece_type>> :
        sq \in {s \in Squares : b.squares[s] # NoPiece}}

----------------------------------------------------------------------------
\* core/move.py : Move

Move(start, end, piece, captured, castle, promotion, en_passant, promo_type) ==
    [start_square |-> start, end_square |-> end, moving_piece |-> piece,
     captured_piece |-> captured, is_castle |-> castle,
     is_promotion |-> promotion, is_en_passant |-> en_passant,
     promotion_piece_type |-> promo_type]

NoType == "none"

\* The value of an Optional[Move] that is None.
NoMove == Move(NoSquare, NoSquare, NoPiece, NoPiece, FALSE, FALSE, FALSE, NoType)

\* _validate_move without its promotion test.
validate_move_without_promotion_test(b, m) ==
    /\ m.moving_piece = b.squares[m.start_square]
    /\ m.start_square # m.end_square

\* Move._validate_move : the constructions that do not raise.
validate_move(b, m) ==
    /\ m.moving_piece = b.squares[m.start_square]
    /\ m.start_square # m.end_square
    /\ (m.is_promotion => m.promotion_piece_type # NoType)

is_capture(m) == m.captured_piece # NoPiece \/ m.is_en_passant

\* Move(start, end) and Move(start, end, is_castle / is_en_passant = True) as
\* written in GameRules.
RuleMove(b, start, end, castle, en_passant) ==
    Move(start, end, b.squares[start], NoPiece, castle, FALSE, en_passant, NoType)

----------------------------------------------------------------------------
\* Per-variant movement vectors (King._directions, Queen._directions,
\* Rook._directions, Bishop._directions, Knight._move_offsets, Pawn.direction)

Diagonals == {<<-1, -1>>, <<-1, 1>>, <<1, -1>>, <<1, 1>>}
Straights == {<<-1, 0>>, <<1, 0>>, <<0, -1>>, <<0, 1>>}
KnightOffsets == {<<-2, -1>>, <<-2, 1>>, <<-1, -2>>, <<-1, 2>>,
                  <<1, -2>>, <<1, 2>>, <<2, -1>>, <<2, 1>>}

\* Pawn.direction : -1 for White (towards row 0), 1 for Black.
direction(color) == IF color = WHITE THEN -1 ELSE 1

\* Piece.get_move_directions : the direction/offset set of the variant.  A
\* pawn's set is its forward step and its two capture diagonals; the
\* two-square advance and en passant are added by GameRules.
get_move_directions(pt, color) ==
    CASE pt = KING -> Diagonals \cup Straights
      [] pt = QUEEN -> Diagonals \cup Straights
      [] pt = ROOK -> Straights
      [] pt = BISHOP -> Diagonals
      [] pt = KNIGHT -> KnightOffsets
      [] pt = PAWN -> {<<direction(color), 0>>, <<direction(color), -1>>,
                       <<direction(color), 1>>}

\* Piece.can_move_multiple_steps : Queen, Rook and Bishop slide.
can_move_multiple_steps(pt) == pt \in {QUEEN, ROOK, BISHOP}

----------------------------------------------------------------------------
\* core/game_rule.py : GameRules

Abs(x) == IF x < 0 THEN -x ELSE x
Sgn(x) == IF x < 0 THEN -1 ELSE IF x > 0 THEN 1 ELSE 0
Max(x, y) == IF x > y THEN x ELSE y

\* _get_path_squares walks from start by the sign of the row and column
\* differences until it meets end.  It meets end exactly when the move runs
\* along a row, a column or a diagonal; otherwise the walk never returns.
Aligned(start, end) ==
    \/ start[1] = end[1]
    \/ start[2] = end[2]
    \/ Abs(end[1] - start[1]) = Abs(end[2] - start[2])

\* GameRules._get_path_squares (for an aligned move): the squares strictly
\* between start and end.
get_path_squares(m) ==
    LET s == m.start_square
        e == m.end_square
        row_step == Sgn(e[1] - s[1])
        col_step == Sgn(e[2] - s[2])
        n == Max(Abs(e[1] - s[1]), Abs(e[2] - s[2]))
    IN {<<s[1] + k * row_step, s[2] + k * col_step>> : k \in 1..(n - 1)}

\* GameRules._is_path_clear
is_path_clear(b, m) ==
    IF b.obj[m.moving_piece].piece_type = KNIGHT
    THEN TRUE
    ELSE \A sq \in get_path_squares(m) : ~is_occupied(b, sq)

\* GameRules._is_valid_capture
is_valid_capture(b, m) ==
    /\ b.squares[m.end_square] # NoPiece
    /\ b.obj[b.squares[m.end_square]].color # b.obj[m.moving_piece].color

\* GameRules.is_valid_promotion
is_valid_promotion(b, m) ==
    /\ b.obj[m.moving_piece].piece_type = PAWN
    /\ IF b.obj[m.moving_piece].color = WHITE
       THEN m.end_square[1] = 0
       ELSE m.end_square[1] = 7

\* GameRules.is_valid_en_passant
is_valid_en_passant(b, m) ==
    LET pawn == b.obj[m.moving_piece]
        captured_square == <<m.start_square[1], m.end_square[2]>>
        captured_pawn == b.squares[captured_square]
        last_move == b.last_move
    IN /\ pawn.piece_type = PAWN
       /\ IF pawn.color = WHITE THEN m.start_square[1] = 3
                                ELSE m.start_square[1] = 4
       /\ captured_pawn # NoPiece
       /\ b.obj[captured_pawn].piece_type = PAWN
       /\ b.obj[captured_pawn].color # pawn.color
       /\ last_move # NoMove
       /\ last_move.moving_piece = captured_pawn
       /\ Abs(last_move.start_square[1] - last_move.end_square[1]) = 2

RECURSIVE is_square_attacked(_, _, _)

\* GameRules.is_valid_castling
is_valid_castling(b, m) ==
    LET king == b.obj[m.moving_piece]
        row == king.square[1]
        is_kingside == m.end_square[2] > m.start_square[2]
        rook_col == IF is_kingside THEN 7 ELSE 0
        path_cols == IF is_kingside THEN 5..6 ELSE 1..3
        rook == b.squares[<<row, rook_col>>]
    IN /\ king.piece_type = KING
       /\ ~king.has_moved
       /\ rook # NoPiece
       /\ b.obj[rook].piece_type = ROOK
       /\ ~b.obj[rook].has_moved
       /\ \A col \in path_cols : ~is_occupied(b, <<row, col>>)
       /\ ~is_square_attacked(b, king.square, opposite(king.color))
       /\ \A col \in path_cols :
             ~is_square_attacked(b, <<row, col>>, opposite(king.color))

\* GameRules.is_valid_move
is_valid_move(b, m) ==
    IF ~(is_valid_position(m.start_square[1], m.start_square[2])
         /\ is_valid_position(m.end_square[1], m.end_square[2]))
    THEN FALSE
    ELSE IF m.moving_piece = NoPiece THEN FALSE
    ELSE IF ~is_path_clear(b, m) THEN FALSE
    ELSE IF m.is_castle THEN is_valid_castling(b, m)
    ELSE IF m.is_en_passant THEN is_valid_en_passant(b, m)
    ELSE IF m.is_promotion THEN is_valid_promotion(b, m)
    ELSE IF is_capture(m) THEN is_valid_capture(b, m)
    ELSE TRUE

\* GameRules._get_moves_in_direction : walk until the edge, stop before an own
\* piece, stop on an enemy piece.
get_moves_in_direction(b, p, dir) ==
    LET start == b.obj[p].square
        At(k) == <<start[1] + k * dir[1], start[2] + k * dir[2]>>
        Reached(k) ==
            /\ is_valid_position(At(k)[1], At(k)[2])
            /\ \A j \in 1..(k - 1) : ~is_occupied(b, At(j))
            /\ ~(is_occupied(b, At(k))
                 /\ b.obj[b.squares[At(k)]].color = b.obj[p].color)
    IN {RuleMove(b, start, At(k), FALSE, FALSE) : k \in {i \in 1..7 : Reached(i)}}

\* _get_castling_moves sending the king to the f file on the king's side.
get_castling_moves_short_step(b, king) ==
    IF b.obj[king].has_moved
    THEN {}
    ELSE LET sq == b.obj[king].square
             kingside_move == RuleMove(b, sq, <<sq[1], 5>>, TRUE, FALSE)
             queenside_move == RuleMove(b, sq, <<sq[1], 2>>, TRUE, FALSE)
         IN {mv \in {kingside_move, queenside_move} : is_valid_castling(b, mv)}

\* GameRules._get_castling_moves
get_castling_moves(b, king) ==
    IF b.obj[king].has_moved
    THEN {}
    ELSE LET sq == b.obj[king].square
             kingside_move == RuleMove(b, sq, <<sq[1], 6>>, TRUE, FALSE)
             queenside_move == RuleMove(b, sq, <<sq[1], 2>>, TRUE, FALSE)
         IN {mv \in {kingside_move, queenside_move} : is_valid_castling(b, mv)}

\* GameRules._get_pawn_special_moves.  For a pawn on its last row get_square
\* yields None as the en passant end square and is_valid_en_passant rejects
\* the move on the pawn's row, so no move is offered there.
get_pawn_special_moves(b, pawn) ==
    LET start == b.obj[pawn].square
        color == b.obj[pawn].color
        end_row == start[1] + (IF color = WHITE THEN -2 ELSE 2)
        two_step ==
            IF /\ ~b.obj[pawn].has_moved
               /\ is_valid_position(end_row, start[2])
               /\ ~is_occupied(b, <<end_row, start[2]>>)
            THEN {RuleMove(b, start, <<end_row, start[2]>>, FALSE, FALSE)}
            ELSE {}
        ep_row == start[1] + (IF color = BLACK THEN 1 ELSE -1)
        en_passant ==
            {mv \in {RuleMove(b, start, <<ep_row, start[2] + off>>, FALSE, TRUE) :
                        off \in {o \in {-1, 1} :
                                    /\ is_valid_position(start[1], start[2] + o)
                                    /\ is_valid_position(ep_row, start[2] + o)}} :
                is_valid_en_passant(b, mv)}
    IN two_step \cup en_passant

\* GameRules.get_legal_moves, the moves of its loop over the directions.
get_basic_moves(b, p) ==
    LET pt == b.obj[p].piece_type
        start == b.obj[p].square
        dirs == get_move_directions(pt, b.obj[p].color)
    IN IF can_move_multiple_steps(pt)
       THEN UNION {get_moves_in_direction(b, p, d) : d \in dirs}
       ELSE {mv \in {RuleMove(b, start, <<start[1] + d[1], start[2] + d[2]>>,
                              FALSE, FALSE) :
                        d \in {x \in dirs : is_valid_position(start[1] + x[1],
                                                              start[2] + x[2])}} :
                is_valid_move(b, mv)}

\* GameRules.get_legal_moves
get_legal_moves(b, p) ==
    LET pt == b.obj[p].piece_type
        special ==
            IF pt = KING THEN get_castling_moves(b, p)
            ELSE IF pt = PAWN THEN get_pawn_special_moves(b, p)
            ELSE {}
    IN get_basic_moves(b, p) \cup special

\* GameRules.is_square_attacked
is_square_attacked(b, square, by_color) ==
    \E p \in get_pieces(b, by_color) :
        \E mv \in get_legal_moves(b, p) : mv.end_square = square

----------------------------------------------------------------------------
\* core/board.py : Board.  A board value holds the grid (squares), the live
\* sets (pieces), the captured list, the piece objects (obj), the last move
\* applied and, for undo_move, the boards before each applied move (log).

EmptyBoard ==
    [squares |-> [sq \in Squares |-> NoPiece],
     pieces |-> [c \in PieceColor |-> {}],
     captured_pieces |-> <<>>,
     obj |-> <<>>,
     last_move |-> NoMove,
     log |-> <<>>]

\* Piece.__init__ (Pawn.__init__ for the en passant flag, which only pawns
\* carry) followed by Board.place_piece on an empty square.
place_piece(b, pt, color, sq) ==
    LET piece == Len(b.obj) + 1
    IN IF is_occupied(b, sq)
       THEN b
       ELSE [b EXCEPT !.obj = Append(@, [piece_type |-> pt, color |-> color,
                                          square |-> sq, has_moved |-> FALSE,
                                          can_be_captured_en_passant |-> FALSE]),
                      !.squares[sq] = piece,
                      !.pieces[color] = @ \cup {piece}]

\* Board.remove_piece
remove_piece(b, sq) ==
    LET piece == b.squares[sq]
    IN IF piece = NoPiece
       THEN b
       ELSE [b EXCEPT !.squares[sq] = NoPiece,
                      !.obj[piece].square = NoSquare,
                      !.pieces[b.obj[piece].color] = @ \ {piece}]

\* Board.move_piece
move_piece(b, from_square, to_square) ==
    LET piece == b.squares[from_square]
        captured == b.squares[to_square]
        b1 == IF captured # NoPiece
              THEN [remove_piece(b, to_square) EXCEPT
                        !.captured_pieces = Append(@, captured)]
              ELSE b
    IN IF piece = NoPiece
       THEN b
       ELSE [b1 EXCEPT !.squares[from_square] = NoPiece,
                       !.squares[to_square] = piece,
                       !.obj[piece].square = to_square]

\* move_to leaving the has-moved flag as it is.
move_to_keeping_flag(b, piece, target_square) ==
    [b EXCEPT !.obj[piece].square = target_square]

\* Piece.move_to
move_to(b, piece, target_square) ==
    [b EXCEPT !.obj[piece].square = target_square,
              !.obj[piece].has_moved = TRUE]

\* Board.get_king : the king in the colour's live set, or None.
get_king(b, color) ==
    IF \E p \in b.pieces[color] : b.obj[p].piece_type = KING
    THEN CHOOSE p \in b.pieces[color] : b.obj[p].piece_type = KING
    ELSE NoPiece

\* The square whose occupant a move displaces: the end square, or for en
\* passant the square beside the capturing pawn.
victim_square(m) ==
    IF m.is_en_passant THEN <<m.start_square[1], m.end_square[2]>>
    ELSE m.end_square

\* The piece Board.make_move returns: the displaced piece, or None.
board_captured(b, m) == b.squares[victim_square(m)]

\* Board.make_move : apply the move to the grid (the displaced piece goes to
\* the captured list and leaves its live set), move the rook of a castling
\* move to the f or d file, replace a promoting pawn by the promotion piece,
\* mark the moved pieces as moved and record the move as last move.
board_make_move(b, m) ==
    LET piece == m.moving_piece
        row == m.start_square[1]
        is_kingside == m.end_square[2] > m.start_square[2]
        b1 == IF m.is_en_passant /\ board_captured(b, m) # NoPiece
              THEN [remove_piece(b, victim_square(m)) EXCEPT
                        !.captured_pieces = Append(@, board_captured(b, m))]
              ELSE b
        b2 == move_to(move_piece(b1, m.start_square, m.end_square),
                      piece, m.end_square)
        rook_from == <<row, IF is_kingside THEN 7 ELSE 0>>
        rook_to == <<row, IF is_kingside THEN 5 ELSE 3>>
        b3 == IF m.is_castle
              THEN move_to(move_piece(b2, rook_from, rook_to),
                           b.squares[rook_from], rook_to)
              ELSE b2
        b4 == IF m.is_promotion
              THEN [b3 EXCEPT !.obj[piece].piece_type = m.promotion_piece_type]
              ELSE b3
    IN [b4 EXCEPT !.last_move = m,
                  !.log = Append(b.log, [b EXCEPT !.log = <<>>])]

\* Board.undo_move : revert the board to what it was before its last move,
\* captured piece, has-moved flags and last move included.
board_undo_move(b) ==
    [b.log[Len(b.log)] EXCEPT !.log = SubSeq(b.log, 1, Len(b.log) - 1)]

----------------------------------------------------------------------------
\* core/game_state.py : GameState

VARIABLES
    board,               \* GameState._board (and the pieces it holds)
    current_player,      \* GameState._current_player
    status,              \* GameState._status
    phase,               \* GameState._phase
    move_history,        \* GameState._move_history
    captured_pieces,     \* GameState._captured_pieces
    position_history,    \* GameState._position_history
    fifty_move_counter,  \* GameState._fifty_move_counter
    moves_played,        \* GameState._moves_played
    last_move,           \* GameState._last_move
    lastOp,              \* the last call: "init", "make_move", "undo_last_move"
    ret,                 \* what the last call returned
    pre,                 \* what the last successful make_move started from
    calls,               \* number of calls made so far
    args,                \* arguments of the last call outside GameState
    out,                 \* what that call raised and returned
    stats,               \* ChessAI._stats
    config,              \* ChessAI._thinking_time ... ChessAI._color
    search               \* what a running search holds: frames, tree, clones

gs == <<board, current_player, status, phase, move_history, captured_pieces,
        position_history, fifty_move_counter, moves_played, last_move>>

vars == <<board, current_player, status, phase, move_history, captured_pieces,
          position_history, fifty_move_counter, moves_played, last_move,
          lastOp, ret, pre, calls, args, out, stats, config, search>>

\* What the calls on GameState leave alone.
aux == <<args, out, stats, config, search>>

\* is_game_over with Draw left out of the terminal statuses.
is_game_over_without_draw(st) == st \in {CHECKMATE, STALEMATE}

\* GameState.is_game_over
is_game_over(st) == st \in {CHECKMATE, STALEMATE, DRAW}

\* GameState._is_check
is_check(b, player) ==
    /\ get_king(b, player) # NoPiece
    /\ is_square_attacked(b, b.obj[get_king(b, player)].square, opposite(player))

\* GameState._has_legal_moves
has_legal_moves(b, player) ==
    \E p \in get_pieces(b, player) : get_legal_moves(b, p) # {}

\* GameState._is_checkmate
is_checkmate(b, player) == is_check(b, player) /\ ~has_legal_moves(b, player)

\* GameState._is_stalemate
is_stalemate(b, player) == ~is_check(b, player) /\ ~has_legal_moves(b, player)

\* GameState._is_fifty_move_draw
is_fifty_move_draw(counter) == counter >= 50

\* list.count
Count(seq, x) == Cardinality({i \in 1..Len(seq) : seq[i] = x})

\* GameState._is_threefold_repetition
is_threefold_repetition(b, history) == Count(history, BoardStr(b)) >= 3

\* _is_insufficient_material without its bare-kings case.
is_insufficient_material_minor_only(b) ==
    LET white_pieces == get_pieces(b, WHITE)
        black_pieces == get_pieces(b, BLACK)
        nw == Cardinality(white_pieces)
        nb == Cardinality(black_pieces)
    IN IF (nw = 2 /\ nb = 1) \/ (nw = 1 /\ nb = 2)
       THEN \E p \in white_pieces \cup black_pieces :
                b.obj[p].piece_type \in {"BISHOP", "KNIGHT"}
       ELSE FALSE

\* GameState._is_insufficient_material : the minor-piece test compares the
\* PieceType member with the strings "BISHOP" and "KNIGHT".
is_insufficient_material(b) ==
    LET white_pieces == get_pieces(b, WHITE)
        black_pieces == get_pieces(b, BLACK)
        nw == Cardinality(white_pieces)
        nb == Cardinality(black_pieces)
    IN IF nw = 1 /\ nb = 1 THEN TRUE
       ELSE IF (nw = 2 /\ nb = 1) \/ (nw = 1 /\ nb = 2)
       THEN \E p \in white_pieces \cup black_pieces :
                b.obj[p].piece_type \in {"BISHOP", "KNIGHT"}
       ELSE FALSE

\* GameState._is_draw
is_draw(b, counter, history) ==
    \/ is_fifty_move_draw(counter)
    \/ is_threefold_repetition(b, history)
    \/ is_insufficient_material(b)

\* GameState._update_game_status
update_game_status(b, player, counter, history) ==
    IF is_checkmate(b, player) THEN CHECKMATE
    ELSE IF is_stalemate(b, player) THEN STALEMATE
    ELSE IF is_draw(b, counter, history) THEN DRAW
    ELSE IF is_check(b, player) THEN CHECK
    ELSE ACTIVE

\* GameState._update_game_phase
update_game_phase(played, captured) ==
    IF played < 20 THEN OPENING
    ELSE IF Len(captured) < 10 THEN MIDDLEGAME
    ELSE ENDGAME

\* What the undo-inverse property compares: board layout (grid and live
\* sets), current player, fifty-move counter and status.
Observed ==
    [squares |-> board.squares, pieces |-> board.pieces,
     current_player |-> current_player,
     fifty_move_counter |-> fifty_move_counter, status |-> status]

\* GameState.make_move, from the position snapshot on: the move is applied,
\* the histories and counters are updated, the status is recomputed and the
\* turn passes.
apply_move(move) ==
    LET captured_piece == board_captured(board, move)
        new_board == board_make_move(board, move)
        new_history == Append(position_history, BoardStr(board))
        new_captured == IF captured_piece # NoPiece
                        THEN Append(captured_pieces, captured_piece)
                        ELSE captured_pieces
        new_counter ==
            IF captured_piece # NoPiece THEN 0
            ELSE IF board.obj[move.moving_piece].piece_type = "PAWN" THEN 0
            ELSE fifty_move_counter + 1
    IN /\ position_history' = new_history
       /\ board' = new_board
       /\ captured_pieces' = new_captured
       /\ fifty_move_counter' = new_counter
       /\ moves_played' = moves_played + 1
       /\ move_history' = Append(move_history, move)
       /\ last_move' = move
       /\ status' = update_game_status(new_board, current_player,
                                       new_counter, new_history)
       /\ phase' = update_game_phase(moves_played + 1, new_captured)
       /\ current_player' = opposite(current_player)
       /\ ret' = "True"
       /\ pre' = Observed

\* make_move taking the position snapshot before it validates the move.
make_move_snapshot_first(move) ==
    /\ lastOp' = "make_move"
    /\ UNCHANGED aux
    /\ IF is_game_over(status) \/ ~is_valid_move(board, move)
       THEN /\ ret' = "False"
            /\ position_history' = Append(position_history, BoardStr(board))
            /\ UNCHANGED <<board, current_player, status, phase, move_history,
                           captured_pieces, fifty_move_counter, moves_played,
                           last_move, pre>>
       ELSE apply_move(move)

\* make_move counting a rejected move as played.
make_move_counting_rejected(move) ==
    /\ lastOp' = "make_move"
    /\ UNCHANGED aux
    /\ IF is_game_over(status) \/ ~is_valid_move(board, move)
       THEN /\ ret' = "False"
            /\ moves_played' = moves_played + 1
            /\ UNCHANGED <<board, current_player, status, phase, move_history,
                           captured_pieces, position_history,
                           fifty_move_counter, last_move, pre>>
       ELSE apply_move(move)

\* GameState.make_move
make_move(move) ==
    /\ lastOp' = "make_move"
    /\ UNCHANGED aux
    /\ IF is_game_over(status) \/ ~is_valid_move(board, move)
       THEN /\ ret' = "False"
            /\ UNCHANGED <<gs, pre>>
       ELSE apply_move(move)

\* undo_last_move forgetting the last move whatever the history holds.
restored_last_move_none(moves) == NoMove

\* undo_last_move : the value given back to _last_move, the new tail of the
\* history or None.
restored_last_move(moves) ==
    IF moves # <<>> THEN moves[Len(moves)] ELSE NoMove

\* GameState.undo_last_move, from the pop on: the last move is taken back on
\* the board, the histories and counters are restored, the turn passes back
\* and the status is recomputed.
revert_move ==
    LET undone == move_history[Len(move_history)]
        new_moves == SubSeq(move_history, 1, Len(move_history) - 1)
        new_history == SubSeq(position_history, 1, Len(position_history) - 1)
        new_board == board_undo_move(board)
        new_captured ==
            IF undone.captured_piece # NoPiece
            THEN SubSeq(captured_pieces, 1, Len(captured_pieces) - 1)
            ELSE captured_pieces
        new_counter ==
            IF \/ undone.captured_piece # NoPiece
               \/ board.obj[undone.moving_piece].piece_type = "PAWN"
            THEN 0
            ELSE fifty_move_counter - 1
        new_player == opposite(current_player)
    IN /\ move_history' = new_moves
       /\ position_history' = new_history
       /\ board' = new_board
       /\ captured_pieces' = new_captured
       /\ moves_played' = moves_played - 1
       /\ fifty_move_counter' = new_counter
       /\ last_move' = restored_last_move(new_moves)
       /\ current_player' = new_player
       /\ status' = update_game_status(new_board, new_player,
                                       new_counter, new_history)
       /\ phase' = update_game_phase(moves_played - 1, new_captured)
       /\ ret' = "Move"
       /\ UNCHANGED pre

\* undo_last_move testing for the empty history only after it has counted
\* the move down and passed the turn back.
undo_last_move_late_guard ==
    /\ lastOp' = "undo_last_move"
    /\ UNCHANGED aux
    /\ IF move_history = <<>>
       THEN /\ ret' = "None"
            /\ moves_played' = moves_played - 1
            /\ current_player' = opposite(current_player)
            /\ UNCHANGED <<board, status, phase, move_history, captured_pieces,
                           position_history, fifty_move_counter, last_move, pre>>
       ELSE revert_move

\* GameState.undo_last_move
undo_last_move ==
    /\ lastOp' = "undo_last_move"
    /\ UNCHANGED aux
    /\ IF move_history = <<>>
       THEN /\ ret' = "None"
            /\ UNCHANGED <<gs, pre>>
       ELSE revert_move

----------------------------------------------------------------------------
\* Start positions, set up with Board.place_piece on an empty board.

RECURSIVE Setup(_, _)
Setup(b, placements) ==
    IF placements = <<>>
    THEN b
    ELSE Setup(place_piece(b, placements[1][1], placements[1][2], placements[1][3]),
               Tail(placements))

\* King and rook against king: Kb6, Rh7 against Ka8.
RookEnding == <<<<KING, WHITE, <<2, 1>>>>, <<ROOK, WHITE, <<1, 7>>>>,
                <<KING, BLACK, <<0, 0>>>>>>

\* Ke1, Nf1, pawn e2 against Ke8.
PawnOpening == <<<<KING, WHITE, <<7, 4>>>>, <<KNIGHT, WHITE, <<7, 5>>>>,
                 <<PAWN, WHITE, <<6, 4>>>>, <<KING, BLACK, <<0, 4>>>>>>

StartPositions == {RookEnding, PawnOpening}

\* Before any call outside GameState: no arguments, nothing raised or
\* returned.
NoArgs == [op |-> "none"]
NoOut == [raised |-> "none", value |-> NoMove]

\* AIStats.__init__ : nodes_evaluated and best_moves.
AIStats == [nodes_evaluated |-> 0, best_moves |-> <<>>]

\* The colour of a ChessAI before configure(player_color=...).
NoColor == "none"

\* ChessAI.__init__ : the configuration before any configure call.
DefaultConfig ==
    [thinking_time |-> 1000, search_depth |-> 3, max_simulations |-> 1000,
     use_opening_book |-> TRUE, color |-> NoColor]

\* No search is running.
NoSearch == [op |-> "none"]

\* GameState.__init__ on a board.
InitOn(b) ==
    /\ board = b
    /\ current_player = WHITE
    /\ status = ACTIVE
    /\ phase = OPENING
    /\ move_history = <<>>
    /\ captured_pieces = <<>>
    /\ position_history = <<>>
    /\ fifty_move_counter = 0
    /\ moves_played = 0
    /\ last_move = NoMove
    /\ lastOp = "init"
    /\ ret = "None"
    /\ pre = Observed
    /\ calls = 0
    /\ args = NoArgs
    /\ out = NoOut
    /\ stats = AIStats
    /\ config = DefaultConfig
    /\ search = NoSearch

\* GameState.__init__ on a populated board.
InitWith(placements) == InitOn(Setup(EmptyBoard, placements))

Init == \E placements \in StartPositions : InitWith(placements)

\* GameState.get_legal_moves : the moves GameRules offers for the pieces of
\* the player to move.
gs_get_legal_moves(b, player) ==
    UNION {get_legal_moves(b, p) : p \in get_pieces(b, player)}

\* The moves a caller hands to make_move: the offered moves, and the same
\* moves with the captured piece filled in or with one special-move flag set.
\* Every one of them passes Move._validate_move.
Decorated(b, m) ==
    {m}
    \cup (IF ~m.is_castle /\ ~m.is_en_passant
          THEN {[m EXCEPT !.is_castle = TRUE],
                [m EXCEPT !.is_en_passant = TRUE],
                [m EXCEPT !.is_promotion = TRUE, !.promotion_piece_type = QUEEN]}
               \cup (IF is_occupied(b, m.end_square)
                     THEN {[m EXCEPT !.captured_piece = b.squares[m.end_square]]}
                     ELSE {})
          ELSE {})

CallerMoves(b, player) ==
    {m \in UNION {Decorated(b, r) : r \in gs_get_legal_moves(b, player)} :
        /\ validate_move(b, m)
        /\ \/ Aligned(m.start_square, m.end_square)
           \/ b.obj[m.moving_piece].piece_type = KNIGHT}

MakeMove ==
    /\ calls < MaxCalls
    /\ calls' = calls + 1
    /\ \E m \in CallerMoves(board, current_player) : make_move(m)

UndoLastMove ==
    /\ calls < MaxCalls
    /\ calls' = calls + 1
    /\ undo_last_move

Next == MakeMove \/ UndoLastMove

Spec == Init /\ [][Next]_vars

----------------------------------------------------------------------------
\* Vocabulary of the properties

TerminalStatus == {CHECKMATE, STALEMATE, DRAW}

MadeMove == lastOp = "make_move" /\ ret = "True"

LivePieces(b) == b.pieces[WHITE] \cup b.pieces[BLACK]

\* A legal move in the sense of the rules of chess: a move GameRules offers
\* that does not leave the mover's own king attacked.
LegalMoves(b, player) ==
    {m \in gs_get_legal_moves(b, player) :
        ~is_check(board_make_move(b, m), player)}

\* C1: make_move(m) returning true, followed at once by undo_last_move(),
\* leaves board layout, current player, fifty-move counter and status as
\* they were before make_move(m).
C1_UndoIsInverse ==
    [][(MadeMove /\ lastOp' = "undo_last_move") => Observed' = pre]_vars

\* C2: a make_move call that returns false changes no part of the GameState.
C2_RejectedMoveKeepsState ==
    [][(lastOp' = "make_move" /\ ret' = "False") => UNCHANGED gs]_vars

\* C2 witness: a move rejected by is_valid_move in a game that is not over.
C2_Witness ==
    /\ lastOp = "make_move" /\ ret = "False"
    /\ status \notin TerminalStatus
    /\ move_history # <<>>

\* C3: in a terminal status every make_move call returns false and leaves
\* the status as it is.
C3_TerminalIsFinal ==
    [][(status \in TerminalStatus /\ lastOp' = "make_move")
          => (ret' = "False" /\ status' = status)]_vars

\* C3 witness: a make_move call was refused in a terminal status.
C3_Witness ==
    /\ status \in TerminalStatus
    /\ lastOp = "make_move" /\ ret = "False"

\* C4: undo_last_move on an empty move history returns none and changes
\* nothing in the GameState.
C4_UndoOnEmptyHistory ==
    [][(move_history = <<>> /\ lastOp' = "undo_last_move")
          => (ret' = "None" /\ UNCHANGED gs)]_vars

\* C4 witness: undo_last_move has returned none on an empty history.
C4_Witness ==
    /\ lastOp = "undo_last_move" /\ ret = "None"
    /\ move_history = <<>>

\* C5: every move GameRules.get_legal_moves returns for a piece on the board
\* passes GameRules.is_valid_move on the same position.
C5_LegalitySoundness ==
    \A p \in LivePieces(board) :
        \A m \in get_legal_moves(board, p) : is_valid_move(board, m)

\* C6: after a successful make_move the king of the player who moved is not
\* attacked by the opponent.
C6_MoverKingSafe ==
    MadeMove => ~is_check(board, opposite(current_player))

\* C7: after a successful make_move, a player to move who has no legal move
\* is in status Checkmate when its king is attacked and in status Stalemate
\* when it is not.
C7_MateOrStalemate ==
    (MadeMove /\ LegalMoves(board, current_player) = {})
        => IF is_check(board, current_player)
           THEN status = CHECKMATE
           ELSE status = STALEMATE

\* C8: the status is Check only if the current player's king is attacked and
\* no terminal condition holds, Active only if the king is not attacked and
\* no terminal condition holds, and Draw when a draw condition holds in a
\* position that is neither checkmate nor stalemate.
C8_StatusMeaning ==
    LET attacked == is_check(board, current_player)
        mated == is_checkmate(board, current_player)
        stalemated == is_stalemate(board, current_player)
        drawn == is_draw(board, fifty_move_counter, position_history)
    IN /\ status = CHECK => (attacked /\ ~mated /\ ~stalemated /\ ~drawn)
       /\ status = ACTIVE => (~attacked /\ ~mated /\ ~stalemated /\ ~drawn)
       /\ (drawn /\ ~mated /\ ~stalemated) => status = DRAW

\* C10: a successful make_move sets the fifty-move counter to 0 when it
\* captures or moves a pawn, and adds exactly 1 to it otherwise.
C10_FiftyMoveCounter ==
    [][(lastOp' = "make_move" /\ ret' = "True")
          => fifty_move_counter' =
                IF \/ Cardinality(LivePieces(board')) < Cardinality(LivePieces(board))
                   \/ board.obj[last_move'.moving_piece].piece_type = PAWN
                THEN 0
                ELSE fifty_move_counter + 1]_vars

----------------------------------------------------------------------------
\* Repetition: the kings of the rook ending shuffle between a few squares,
\* so that no move captures and no pawn moves.

ShuffleSquares == {<<2, 1>>, <<3, 1>>, <<3, 2>>, <<0, 0>>, <<0, 1>>, <<0, 2>>}

ShuffleMoves(b, player) ==
    {m \in get_legal_moves(b, get_king(b, player)) :
        m.end_square \in ShuffleSquares /\ ~is_occupied(b, m.end_square)}

InitRep == InitWith(RookEnding)

RepMove ==
    /\ calls < RepPlies
    /\ calls' = calls + 1
    /\ \E m \in ShuffleMoves(board, current_player) : make_move(m)

NextRep == RepMove

SpecRep == InitRep /\ [][NextRep]_vars

\* The side to move in the position recorded before the i-th move.
SideBefore(i) == IF i % 2 = 1 THEN WHITE ELSE BLACK

\* How often the current position (same board, same side to move) has
\* occurred in the game, the current occurrence included.
Occurrences ==
    1 + Cardinality({i \in 1..Len(position_history) :
                        /\ position_history[i] = BoardStr(board)
                        /\ SideBefore(i) = current_player})

\* C9: in a run of successful moves without capture or pawn move the status
\* becomes Draw exactly when a position occurs for the third time: it is
\* Draw on the third occurrence and not Draw before it.
C9_ThreefoldOnThird ==
    MadeMove => (status = DRAW <=> Occurrences >= 3)

----------------------------------------------------------------------------
\* Insufficient material

\* The pieces standing on the grid.
OnBoard(b) == {b.squares[sq] : sq \in {x \in Squares : b.squares[x] # NoPiece}}

\* Only the two kings remain on the board.
BareKings(b) ==
    /\ Cardinality(OnBoard(b)) = 2
    /\ \A c \in PieceColor :
          \E p \in OnBoard(b) : b.obj[p].piece_type = KING /\ b.obj[p].color = c

\* The last call recomputed the status.
StatusRecomputed ==
    \/ lastOp = "make_move" /\ ret = "True"
    \/ lastOp = "undo_last_move" /\ ret = "Move"

MaterialPositions ==
    {<<<<KING, WHITE, <<7, 4>>>>, <<pt, WHITE, <<4, 3>>>>, <<KING, BLACK, <<0, 4>>>>>> :
        pt \in PieceType \ {KING}}
    \cup {<<<<KING, WHITE, <<7, 4>>>>, <<KING, BLACK, <<0, 4>>>>,
            <<BISHOP, BLACK, <<3, 3>>>>>>}

InitMaterial == \E placements \in MaterialPositions : InitWith(placements)

MaterialMove ==
    /\ calls < MaterialCalls
    /\ calls' = calls + 1
    /\ \E m \in CallerMoves(board, current_player) : make_move(m)

MaterialUndo ==
    /\ calls < MaterialCalls
    /\ calls' = calls + 1
    /\ undo_last_move

NextMaterial == MaterialMove \/ MaterialUndo

SpecMaterial == InitMaterial /\ [][NextMaterial]_vars

\* The two kings and exactly one further piece stand on the board.
KingAndOne(b) ==
    /\ Cardinality(OnBoard(b)) = 3
    /\ \A c \in PieceColor :
          \E p \in OnBoard(b) : b.obj[p].piece_type = KING /\ b.obj[p].color = c

\* C12: when the status has been recomputed with king and one further piece
\* against a bare king, the insufficient-material condition holds exactly
\* when the further piece is a bishop or a knight.
C12_MinorPieceOnly ==
    (StatusRecomputed /\ KingAndOne(board))
        => (is_insufficient_material(board)
              <=> \E p \in OnBoard(board) :
                     board.obj[p].piece_type \in {BISHOP, KNIGHT})

----------------------------------------------------------------------------
\* pieces/pawn.py : Pawn

\* Pawn.start_row
start_row(color) == IF color = WHITE THEN 6 ELSE 1

\* Pawn._promotion_row
promotion_row(color) == IF color = WHITE THEN 0 ELSE 7

\* Pawn._create_move, the move it returns.
create_move(b, p, end_square, capture, promotion, en_passant, promo_type) ==
    Move(b.obj[p].square, end_square, p,
         IF capture THEN b.squares[end_square] ELSE NoPiece,
         FALSE, promotion, en_passant, promo_type)

\* _get_promotion_moves offering the queen alone.
get_promotion_moves_queen_only(b, p, end_square, capture) ==
    IF end_square[1] = promotion_row(b.obj[p].color)
    THEN {create_move(b, p, end_square, capture, TRUE, FALSE, QUEEN)}
    ELSE {create_move(b, p, end_square, capture, FALSE, FALSE, NoType)}

\* Pawn._get_promotion_moves
get_promotion_moves(b, p, end_square, capture) ==
    IF end_square[1] = promotion_row(b.obj[p].color)
    THEN {create_move(b, p, end_square, capture, TRUE, FALSE, t) :
             t \in {QUEEN, ROOK, BISHOP, KNIGHT}}
    ELSE {create_move(b, p, end_square, capture, FALSE, FALSE, NoType)}

\* Pawn.get_legal_moves reaches its two-square branch and builds the move
\* with can_be_en_passant=True.
two_ahead_built(b, p) ==
    LET sq == b.obj[p].square
        dir == direction(b.obj[p].color)
        next_row == sq[1] + dir
    IN /\ 0 <= next_row /\ next_row < 8
       /\ ~is_occupied(b, <<next_row, sq[2]>>)
       /\ ~b.obj[p].has_moved
       /\ sq[1] = start_row(b.obj[p].color)
       /\ ~is_occupied(b, <<next_row + dir, sq[2]>>)

\* Pawn._get_en_passant_moves
get_en_passant_moves(b, p) ==
    LET sq == b.obj[p].square
        color == b.obj[p].color
        dir == direction(color)
        Beside(off) == <<sq[1], sq[2] + off>>
        Eligible(off) ==
            /\ 0 <= sq[2] + off /\ sq[2] + off < 8
            /\ is_occupied(b, Beside(off))
            /\ b.obj[b.squares[Beside(off)]].piece_type = PAWN
            /\ b.obj[b.squares[Beside(off)]].color # color
            /\ b.obj[b.squares[Beside(off)]].can_be_captured_en_passant
    IN IF sq[1] = (IF color = WHITE THEN 3 ELSE 4)
       THEN {create_move(b, p, <<sq[1] + dir, sq[2] + off>>, TRUE, FALSE, TRUE, NoType) :
                off \in {o \in {-1, 1} : Eligible(o)}}
       ELSE {}

\* Pawn.get_legal_moves, the list it returns.
Pawn_get_legal_moves(b, p) ==
    LET sq == b.obj[p].square
        color == b.obj[p].color
        dir == direction(color)
        next_row == sq[1] + dir
        in_range == 0 <= next_row /\ next_row < 8
        front == <<next_row, sq[2]>>
        forward ==
            IF in_range /\ ~is_occupied(b, front)
            THEN get_promotion_moves(b, p, front, FALSE)
                 \cup (IF two_ahead_built(b, p)
                       THEN {create_move(b, p, <<next_row + dir, sq[2]>>,
                                         FALSE, FALSE, FALSE, NoType)}
                       ELSE {})
            ELSE {}
        Enemy(off) ==
            /\ in_range /\ 0 <= sq[2] + off /\ sq[2] + off < 8
            /\ is_occupied(b, <<next_row, sq[2] + off>>)
            /\ b.obj[b.squares[<<next_row, sq[2] + off>>]].color # color
        captures ==
            UNION {get_promotion_moves(b, p, <<next_row, sq[2] + off>>, TRUE) :
                      off \in {o \in {-1, 1} : Enemy(o)}}
    IN forward \cup captures \cup get_en_passant_moves(b, p)

\* Pawn.get_legal_moves, what it leaves behind: _create_move marks the pawn
\* as capturable en passant when it builds the two-square advance.
Pawn_after_get_legal_moves(b, p) ==
    IF two_ahead_built(b, p)
    THEN [b EXCEPT !.obj[p].can_be_captured_en_passant = TRUE]
    ELSE b

----------------------------------------------------------------------------
\* En passant: Ke1, pawns e2 and h2 against Ke8, pawns d4 and a7.

EnPassantStart ==
    <<<<KING, WHITE, <<7, 4>>>>, <<PAWN, WHITE, <<6, 4>>>>, <<PAWN, WHITE, <<6, 7>>>>,
      <<KING, BLACK, <<0, 4>>>>, <<PAWN, BLACK, <<4, 3>>>>, <<PAWN, BLACK, <<1, 0>>>>>>

InitEp == InitWith(EnPassantStart)

Pawns(b, color) == {p \in get_pieces(b, color) : b.obj[p].piece_type = PAWN}

\* Move(start, end, pawn, is_en_passant=True) for the diagonal steps of a pawn.
DiagonalEp(b, p) ==
    LET sq == b.obj[p].square
        row == sq[1] + direction(b.obj[p].color)
    IN {RuleMove(b, sq, <<row, sq[2] + off>>, FALSE, TRUE) :
           off \in {o \in {-1, 1} : is_valid_position(row, sq[2] + o)}}

\* The pawn moves a caller hands to make_move: the straight advances and en
\* passant captures GameRules offers, and every diagonal step of a pawn built
\* as an en passant capture.
EpMoves(b, player) ==
    {m \in UNION {get_legal_moves(b, p) : p \in Pawns(b, player)} :
        m.start_square[2] = m.end_square[2] \/ m.is_en_passant}
    \cup UNION {DiagonalEp(b, p) : p \in Pawns(b, player)}

EpMove ==
    /\ calls < EpCalls
    /\ calls' = calls + 1
    /\ \E m \in EpMoves(board, current_player) : make_move(m)

\* Pawn.get_legal_moves called on a pawn of the board.
PawnGetLegalMoves ==
    /\ calls < EpCalls
    /\ calls' = calls + 1
    /\ \E p \in Pawns(board, WHITE) \cup Pawns(board, BLACK) :
          /\ board' = Pawn_after_get_legal_moves(board, p)
          /\ lastOp' = "Pawn.get_legal_moves"
          /\ ret' = "Moves"
    /\ UNCHANGED <<current_player, status, phase, move_history, captured_pieces,
                   position_history, fifty_move_counter, moves_played, last_move,
                   pre, aux>>

NextEp == EpMove \/ PawnGetLegalMoves

SpecEp == InitEp /\ [][NextEp]_vars

\* The pawn made a two-square advance as the most recent move of the game.
JustAdvancedTwo(pawn) ==
    /\ last_move # NoMove
    /\ last_move.moving_piece = pawn
    /\ last_move.start_square[2] = last_move.end_square[2]
    /\ Abs(last_move.start_square[1] - last_move.end_square[1]) = 2
    /\ board.squares[last_move.end_square] = pawn

\* The pawn an en passant capture takes: the one beside the capturing pawn.
Victim(b, m) == b.squares[<<m.start_square[1], m.end_square[2]>>]

\* C13: no generator offers an en passant capture of a pawn unless that pawn
\* made a two-square advance as the most recent move of the game.
C13_EnPassantTransient ==
    \A p \in Pawns(board, WHITE) \cup Pawns(board, BLACK) :
        \A m \in Pawn_get_legal_moves(board, p) \cup get_legal_moves(board, p) :
            m.is_en_passant => JustAdvancedTwo(Victim(board, m))

\* Pawn q stands beside enemy pawn v, which has just advanced two squares.
EpReady(q, v) ==
    /\ JustAdvancedTwo(v)
    /\ board.obj[q].piece_type = PAWN
    /\ board.obj[q].color # board.obj[v].color
    /\ board.obj[q].square # NoSquare
    /\ board.obj[q].square[1] = board.obj[v].square[1]
    /\ Abs(board.obj[q].square[2] - board.obj[v].square[2]) = 1

\* The en passant capture of v by q: onto the square v skipped.
EpCapture(q, v) ==
    RuleMove(board, board.obj[q].square,
             <<(last_move.start_square[1] + last_move.end_square[1]) \div 2,
               board.obj[v].square[2]>>,
             FALSE, TRUE)

\* C14: right after a two-square pawn advance, make_move accepts the en
\* passant capture by an enemy pawn beside the advanced pawn, and applying
\* that capture takes the advanced pawn off its square and out of its
\* colour's live set and puts the capturing pawn on the skipped square.
C14_EnPassantCapture ==
    [][\A q \in LivePieces(board), v \in LivePieces(board) :
          EpReady(q, v)
            => /\ ~is_game_over(status)
               /\ is_valid_move(board, EpCapture(q, v))
               /\ (lastOp' = "make_move" /\ ret' = "True"
                      /\ last_move' = EpCapture(q, v))
                    => /\ board'.squares[board.obj[v].square] = NoPiece
                       /\ v \notin board'.pieces[board.obj[v].color]
                       /\ board'.squares[EpCapture(q, v).end_square] = q]_vars

\* The same for a two-square advance that started from the pawn's start row
\* (e2-e4 answered by d4xe3): there the capture is accepted and applied.
EnPassantAfterStartRowAdvance ==
    [][\A q \in LivePieces(board), v \in LivePieces(board) :
          (EpReady(q, v)
             /\ last_move.start_square[1] = start_row(board.obj[v].color))
            => /\ ~is_game_over(status)
               /\ is_valid_move(board, EpCapture(q, v))
               /\ (lastOp' = "make_move" /\ ret' = "True"
                      /\ last_move' = EpCapture(q, v))
                    => /\ board'.squares[board.obj[v].square] = NoPiece
                       /\ v \notin board'.pieces[board.obj[v].color]
                       /\ board'.squares[EpCapture(q, v).end_square] = q]_vars

\* An en passant capture was made in reply to the two-square advance of the
\* pawn it takes.
EnPassantCaptureMade ==
    /\ MadeMove
    /\ last_move.is_en_passant
    /\ Len(move_history) >= 2
    /\ LET advance == move_history[Len(move_history) - 1]
       IN /\ Abs(advance.start_square[1] - advance.end_square[1]) = 2
          /\ advance.end_square = <<last_move.start_square[1], last_move.end_square[2]>>
          /\ board.obj[advance.moving_piece].piece_type = PAWN
          /\ board.obj[advance.moving_piece].square = NoSquare

----------------------------------------------------------------------------
\* Castling: Ke1, Ra1, Rh1 against Ke8 and a knight on b5, and Ke1, Rh1
\* against Ke8.

CastlePositions ==
    {<<<<KING, WHITE, <<7, 4>>>>, <<ROOK, WHITE, <<7, 0>>>>, <<ROOK, WHITE, <<7, 7>>>>,
       <<KING, BLACK, <<0, 4>>>>, <<KNIGHT, BLACK, <<3, 1>>>>>>,
     <<<<KING, WHITE, <<7, 4>>>>, <<ROOK, WHITE, <<7, 7>>>>, <<KING, BLACK, <<0, 4>>>>>>}

InitCastle == \E placements \in CastlePositions : InitWith(placements)

\* The moves handed to make_move: the moves GameRules offers the player.
CastleMoves(b, player) ==
    {m \in gs_get_legal_moves(b, player) :
        \/ Aligned(m.start_square, m.end_square)
        \/ b.obj[m.moving_piece].piece_type = KNIGHT}

CastleMove ==
    /\ calls < CastlePlies
    /\ calls' = calls + 1
    /\ \E m \in CastleMoves(board, current_player) : make_move(m)

NextCastle == CastleMove

SpecCastle == InitCastle /\ [][NextCastle]_vars

\* The kings standing on the board, and the castling move of a king towards
\* the given file (6 on the king's side, 2 on the queen's side).
Kings(b) == {p \in LivePieces(b) : b.obj[p].piece_type = KING}

CastlingMove(b, king, col) ==
    RuleMove(b, b.obj[king].square, <<b.obj[king].square[1], col>>, TRUE, FALSE)

\* The conditions of castling: the king has not moved; an unmoved rook of the
\* king's colour stands on the far corner of the chosen side; the squares
\* between king and rook are empty; the king's square and the squares it
\* passes (f and g, or d and c) are not attacked by the opponent.
CastlingConditions(b, m) ==
    LET king == m.moving_piece
        row == b.obj[king].square[1]
        kcol == b.obj[king].square[2]
        is_kingside == m.end_square[2] > m.start_square[2]
        corner == <<row, IF is_kingside THEN 7 ELSE 0>>
        between == IF is_kingside THEN (kcol + 1)..6 ELSE 1..(kcol - 1)
        passed == IF is_kingside THEN {5, 6} ELSE {3, 2}
        enemy == opposite(b.obj[king].color)
    IN /\ ~b.obj[king].has_moved
       /\ b.squares[corner] # NoPiece
       /\ b.obj[b.squares[corner]].piece_type = ROOK
       /\ b.obj[b.squares[corner]].color = b.obj[king].color
       /\ ~b.obj[b.squares[corner]].has_moved
       /\ \A col \in between : ~is_occupied(b, <<row, col>>)
       /\ ~is_square_attacked(b, b.obj[king].square, enemy)
       /\ \A col \in passed : ~is_square_attacked(b, <<row, col>>, enemy)

\* C15: after any move, is_valid_castling of a king's castling move returns
\* true exactly when the conditions of castling hold.
C15_CastlingConditions ==
    MadeMove =>
        \A king \in Kings(board) :
            \A col \in {c \in {2, 6} : c # board.obj[king].square[2]} :
                is_valid_castling(board, CastlingMove(board, king, col))
                    <=> CastlingConditions(board, CastlingMove(board, king, col))

QueensideCastled ==
    /\ MadeMove /\ last_move.is_castle
    /\ last_move.end_square[2] < last_move.start_square[2]

----------------------------------------------------------------------------
\* Move construction on the rook ending (Kb6, Rh7 against Ka8).

\* The squares, pieces and promotion types a caller constructs moves from:
\* two occupied squares and an empty one; no piece, the king on b6 and the
\* rook on h7; no type and queen.
CtorSquares == {<<2, 1>>, <<1, 7>>, <<1, 0>>}
CtorPieces == {NoPiece, 1, 2}
CtorTypes == {NoType, QUEEN}

InitMove == InitWith(RookEnding)

\* Move(start_square, end_square, moving_piece, captured_piece, is_castle,
\* is_promotion, is_en_passant, promotion_piece_type): __post_init__ raises
\* ValueError or leaves the frozen instance with the fields as given.
ConstructMove ==
    /\ calls < MoveCalls
    /\ calls' = calls + 1
    /\ \E start \in CtorSquares, end \in CtorSquares, piece \in CtorPieces,
          captured \in CtorPieces, castle \in BOOLEAN, promotion \in BOOLEAN,
          en_passant \in BOOLEAN, promo_type \in CtorTypes :
          LET m == Move(start, end, piece, captured, castle, promotion,
                        en_passant, promo_type)
          IN /\ args' = [op |-> "Move", start_square |-> start, end_square |-> end,
                         moving_piece |-> piece, captured_piece |-> captured,
                         is_castle |-> castle, is_promotion |-> promotion,
                         is_en_passant |-> en_passant,
                         promotion_piece_type |-> promo_type]
             /\ out' = IF validate_move(board, m)
                       THEN [raised |-> "none", value |-> m]
                       ELSE [raised |-> "ValueError", value |-> NoMove]
    /\ lastOp' = "Move"
    /\ ret' = "None"
    /\ UNCHANGED <<gs, pre, stats, config, search>>

NextMove == ConstructMove

SpecMove == InitMove /\ [][NextMove]_vars

\* C17: constructing a Move raises ValueError and yields no Move exactly when
\* the moving piece is not the piece on the start square, or start and end
\* are the same square, or the promotion flag comes without a promotion
\* type; every other construction yields a Move holding the fields as given.
C17_MoveValidation ==
    lastOp = "Move" =>
        LET invalid ==
                \/ args.moving_piece # board.squares[args.start_square]
                \/ args.start_square = args.end_square
                \/ args.is_promotion /\ args.promotion_piece_type = NoType
        IN IF invalid
           THEN out.raised = "ValueError" /\ out.value = NoMove
           ELSE /\ out.raised = "none"
                /\ out.value.start_square = args.start_square
                /\ out.value.end_square = args.end_square
                /\ out.value.moving_piece = args.moving_piece
                /\ out.value.captured_piece = args.captured_piece
                /\ out.value.is_castle = args.is_castle
                /\ out.value.is_promotion = args.is_promotion
                /\ out.value.is_en_passant = args.is_en_passant
                /\ out.value.promotion_piece_type = args.promotion_piece_type

\* C17 witness: a construction with the promotion flag and no promotion type,
\* valid otherwise, has raised.
C17_Witness ==
    /\ lastOp = "Move"
    /\ args.is_promotion /\ args.promotion_piece_type = NoType
    /\ args.moving_piece = board.squares[args.start_square]
    /\ args.start_square # args.end_square
    /\ out.raised = "ValueError"

----------------------------------------------------------------------------
\* ai/strategies/random.py, ai/strategies/mcts.py : get_best_move.  The
\* clock (get_current_time, is_time_up, get_time_spent) is not defined in the
\* sources; whether the time is up when the search loop starts is an input.

\* RandomStrategy.get_best_move returning the number of legal moves as
\* nodes_evaluated.
Random_get_best_move_counting_moves ==
    LET legal_moves == gs_get_legal_moves(board, current_player)
    IN /\ args' = [op |-> "get_best_move", strategy |-> "random",
                   max_simulations |-> 0, time_up |-> FALSE]
       /\ IF legal_moves = {}
          THEN /\ out' = [raised |-> "none", value |-> NoMove]
               /\ UNCHANGED stats
          ELSE \E chosen_move \in legal_moves :
                  /\ out' = [raised |-> "none", value |-> chosen_move]
                  /\ stats' = [nodes_evaluated |-> Cardinality(legal_moves),
                               best_moves |-> <<chosen_move>>]
       /\ UNCHANGED gs

\* RandomStrategy.get_best_move
Random_get_best_move ==
    LET legal_moves == gs_get_legal_moves(board, current_player)
    IN /\ args' = [op |-> "get_best_move", strategy |-> "random",
                   max_simulations |-> 0, time_up |-> FALSE]
       /\ IF legal_moves = {}
          THEN /\ out' = [raised |-> "none", value |-> NoMove]
               /\ UNCHANGED stats
          ELSE \E chosen_move \in legal_moves :
                  /\ out' = [raised |-> "none", value |-> chosen_move]
                  /\ stats' = [nodes_evaluated |-> 1,
                               best_moves |-> <<chosen_move>>]
       /\ UNCHANGED gs

\* MCTSStrategy.get_best_move with a budget that allows no simulation
\* (max_simulations = 0, or the thinking time already used up): the loop
\* body never runs, the root has no children, _get_best_child returns None.
MCTS_get_best_move(max_simulations, time_up) ==
    /\ time_up \/ max_simulations = 0
    /\ args' = [op |-> "get_best_move", strategy |-> "mcts",
                max_simulations |-> max_simulations, time_up |-> time_up]
    /\ out' = [raised |-> "none", value |-> NoMove]
    /\ UNCHANGED <<stats, gs>>

\* Kb6, Rh7 against Ka8; a bishop on a8 against a king on b7 (one move
\* offered: Bxb7); a pawn on a8 against a king on e8 (no move offered).
AIPositions ==
    {RookEnding,
     <<<<BISHOP, WHITE, <<0, 0>>>>, <<KING, BLACK, <<1, 1>>>>>>,
     <<<<PAWN, WHITE, <<0, 0>>>>, <<KING, BLACK, <<0, 4>>>>>>}

InitAI == \E placements \in AIPositions : InitWith(placements)

\* A move of the legal set is played.
AIPlay ==
    /\ calls < AICalls
    /\ calls' = calls + 1
    /\ \E m \in CastleMoves(board, current_player) : make_move(m)

RandomGetBestMove ==
    /\ calls < AICalls
    /\ calls' = calls + 1
    /\ lastOp' = "get_best_move"
    /\ ret' = "None"
    /\ Random_get_best_move
    /\ UNCHANGED <<pre, config, search>>

MCTSGetBestMove ==
    /\ calls < AICalls
    /\ calls' = calls + 1
    /\ lastOp' = "get_best_move"
    /\ ret' = "None"
    /\ \E max_simulations \in {0, 1000}, time_up \in BOOLEAN :
          MCTS_get_best_move(max_simulations, time_up)
    /\ UNCHANGED <<pre, config, search>>

----------------------------------------------------------------------------
\* ai/chess_ai.py : the static evaluator.  Scores are kept in hundredths, so
\* that the weights 1.0, 0.1, 0.1, 0.2 and the table entries are integers.
\* King.has_castled is set nowhere in the sources: its value for each colour
\* is an input.  _count_king_protectors hands board.get_piece_at one square;
\* it is read as the occupant of that square.

\* piece_values of _calculate_material_score
piece_values(pt) ==
    CASE pt = PAWN -> 1
      [] pt = KNIGHT -> 3
      [] pt = BISHOP -> 3
      [] pt = ROOK -> 5
      [] pt = QUEEN -> 9
      [] OTHER -> 0

\* ChessAI._calculate_material_score
calculate_material_score(b, color) ==
    LET RECURSIVE Sum(_)
        Sum(S) == IF S = {} THEN 0
                  ELSE LET p == CHOOSE q \in S : TRUE
                       IN piece_values(b.obj[p].piece_type) + Sum(S \ {p})
    IN Sum(get_pieces(b, color)) - Sum(get_pieces(b, opposite(color)))

\* ChessAI._get_piece_square_tables, in tenths
piece_square_tables(pt, sq) ==
    CASE pt = PAWN /\ sq \in {<<1, 3>>, <<1, 4>>} -> 1
      [] pt = PAWN /\ sq \in {<<2, 3>>, <<2, 4>>} -> 2
      [] pt = PAWN /\ sq \in {<<3, 3>>, <<3, 4>>} -> 3
      [] pt \in {KNIGHT, BISHOP}
           /\ sq \in {<<2, 2>>, <<2, 5>>, <<5, 2>>, <<5, 5>>} -> 2
      [] pt = ROOK /\ sq \in {<<0, 3>>, <<0, 4>>, <<7, 3>>, <<7, 4>>} -> 1
      [] pt = QUEEN /\ sq \in {<<1, 3>>, <<1, 4>>} -> 1
      [] pt = QUEEN /\ sq \in {<<2, 3>>, <<2, 4>>} -> 2
      [] OTHER -> 0

\* ChessAI._calculate_position_score, in tenths
calculate_position_score(b, color) ==
    LET RECURSIVE Own(_), Opp(_)
        Own(S) == IF S = {} THEN 0
                  ELSE LET p == CHOOSE q \in S : TRUE
                       IN piece_square_tables(b.obj[p].piece_type,
                                              b.obj[p].square)
                          + Own(S \ {p})
        Opp(S) == IF S = {} THEN 0
                  ELSE LET p == CHOOSE q \in S : TRUE
                       IN piece_square_tables(b.obj[p].piece_type,
                              <<7 - b.obj[p].square[1], b.obj[p].square[2]>>)
                          + Opp(S \ {p})
    IN Own(get_pieces(b, color)) - Opp(get_pieces(b, opposite(color)))

\* ChessAI._calculate_mobility_score : the moves of the player to move
\* against the moves of the colour opposite to the configured one.
calculate_mobility_score(b, player, color) ==
    Cardinality(gs_get_legal_moves(b, player))
    - Cardinality(gs_get_legal_moves(b, opposite(color)))

\* King.get_adjacent_squares
get_adjacent_squares(b, king) ==
    {sq \in Squares :
        /\ sq # b.obj[king].square
        /\ Abs(sq[1] - b.obj[king].square[1]) <= 1
        /\ Abs(sq[2] - b.obj[king].square[2]) <= 1}

\* ChessAI._count_king_protectors
count_king_protectors(b, king) ==
    Cardinality({sq \in get_adjacent_squares(b, king) :
        /\ b.squares[sq] # NoPiece
        /\ b.obj[b.squares[sq]].color = b.obj[king].color})

\* ChessAI._calculate_king_safety, in tenths
calculate_king_safety(b, color, has_castled) ==
    LET king == get_king(b, color)
        opponent_king == get_king(b, opposite(color))
    IN IF king = NoPiece \/ opponent_king = NoPiece THEN 0
       ELSE (IF has_castled[color] THEN 20 ELSE 0)
            - (IF has_castled[opposite(color)] THEN 20 ELSE 0)
            + (count_king_protectors(b, king)
               - count_king_protectors(b, opponent_king)) * 2

\* ChessAI.evaluate_position for a configured colour, in hundredths
evaluate_position(b, player, color, has_castled) ==
    LET score == calculate_material_score(b, color) * 100
                 + calculate_position_score(b, color)
                 + calculate_mobility_score(b, player, color) * 10
                 + calculate_king_safety(b, color, has_castled) * 2
    IN IF color = WHITE THEN score ELSE -score

\* configure(**kwargs) with player_color falling back to White.
configure_defaulting_to_white(cfg, kwargs) ==
    LET get(key, default) == IF key \in DOMAIN kwargs THEN kwargs[key]
                             ELSE default
    IN [thinking_time |-> get("thinking_time", cfg.thinking_time),
        search_depth |-> get("search_depth", cfg.search_depth),
        max_simulations |-> get("max_simulations", cfg.max_simulations),
        use_opening_book |-> get("use_opening_book", cfg.use_opening_book),
        color |-> get("player_color", WHITE)]

\* ChessAI.configure : kwargs.get(key, current value) for each option.
configure(cfg, kwargs) ==
    LET get(key, default) == IF key \in DOMAIN kwargs THEN kwargs[key]
                             ELSE default
    IN [thinking_time |-> get("thinking_time", cfg.thinking_time),
        search_depth |-> get("search_depth", cfg.search_depth),
        max_simulations |-> get("max_simulations", cfg.max_simulations),
        use_opening_book |-> get("use_opening_book", cfg.use_opening_book),
        color |-> get("player_color", cfg.color)]

\* The configure calls made: one option at a time, no option at all, the
\* call of AIPlayer.get_move (every option but player_color, here with the
\* values of AILevel.EASY), and player_color given as a colour or as None.
ConfigureCalls ==
    {[thinking_time |-> 500], [search_depth |-> 1], [max_simulations |-> 100],
     [use_opening_book |-> FALSE], <<>>,
     [thinking_time |-> 500, search_depth |-> 1, max_simulations |-> 100,
      use_opening_book |-> TRUE],
     [player_color |-> WHITE], [player_color |-> BLACK],
     [player_color |-> NoColor]}

Configure ==
    /\ calls < AICalls
    /\ calls' = calls + 1
    /\ lastOp' = "configure"
    /\ ret' = "None"
    /\ \E kwargs \in ConfigureCalls :
          /\ args' = [op |-> "configure", kwargs |-> kwargs]
          /\ config' = configure(config, kwargs)
    /\ out' = NoOut
    /\ UNCHANGED <<gs, pre, stats, search>>

EvaluatePosition ==
    /\ calls < AICalls
    /\ calls' = calls + 1
    /\ lastOp' = "evaluate_position"
    /\ ret' = "None"
    /\ \E has_castled \in [PieceColor -> BOOLEAN] :
          /\ args' = [op |-> "evaluate_position", color |-> config.color,
                      has_castled |-> has_castled]
          /\ out' = IF config.color = NoColor
                    THEN [raised |-> "ValueError", value |-> 0]
                    ELSE [raised |-> "none",
                          value |-> evaluate_position(board, current_player,
                                                      config.color, has_castled)]
    /\ UNCHANGED <<gs, pre, stats, config, search>>

NextAI ==
    \/ AIPlay
    \/ RandomGetBestMove
    \/ MCTSGetBestMove
    \/ Configure
    \/ EvaluatePosition

SpecAI == InitAI /\ [][NextAI]_vars

\* C18: get_best_move of the Random and MCTS strategies raises nothing,
\* returns one of the current player's legal moves whenever there is one,
\* whatever the budget, and returns none when there is no legal move.
C18_BestMoveOnlyNoneWithoutMoves ==
    lastOp = "get_best_move" =>
        LET legal_moves == gs_get_legal_moves(board, current_player)
        IN /\ out.raised = "none"
           /\ IF legal_moves = {}
              THEN out.value = NoMove
              ELSE out.value \in legal_moves

\* C19: RandomStrategy.get_best_move on a position with legal moves returns
\* one of them, records nodes_evaluated = 1 and best_moves = [the move
\* returned], and leaves the GameState as it was; with exactly one legal
\* move it returns that move.
C19_RandomStrategy ==
    [][(lastOp' = "get_best_move" /\ args'.strategy = "random"
          /\ gs_get_legal_moves(board, current_player) # {})
          => /\ out'.value \in gs_get_legal_moves(board, current_player)
             /\ stats'.nodes_evaluated = 1
             /\ stats'.best_moves = <<out'.value>>
             /\ UNCHANGED gs
             /\ \A m \in gs_get_legal_moves(board, current_player) :
                   gs_get_legal_moves(board, current_player) = {m}
                      => out'.value = m]_vars

\* C19 witness: the Random strategy has returned the only legal move of a
\* position.
C19_Witness ==
    /\ lastOp = "get_best_move" /\ args.strategy = "random"
    /\ Cardinality(gs_get_legal_moves(board, current_player)) = 1
    /\ out.value \in gs_get_legal_moves(board, current_player)
    /\ stats.nodes_evaluated = 1

\* C20: the evaluation of a position for one configured colour is the
\* negation of its evaluation for the other colour,
\* evaluate(P, White) = -evaluate(P, Black).
C20_EvaluatorColourSymmetry ==
    (lastOp = "evaluate_position" /\ args.color \in PieceColor) =>
        out.value = -evaluate_position(board, current_player,
                                       opposite(args.color), args.has_castled)

\* The material term comes out the same for both configured colours: the
\* balance is taken from the configured colour's side and the total is
\* negated for Black once more.
MaterialTermSameForBothColours ==
    calculate_material_score(board, WHITE)
        = -calculate_material_score(board, BLACK)

----------------------------------------------------------------------------
\* ai/strategies/negamax.py : _negamax as a function of the game tree below
\* the position it is given.  A position is the path of moves that leads to
\* it; every position above the leaves has the same moves, every make_move
\* succeeds, the time is never up, and the tree gives the value
\* _evaluate_position returns at each leaf.  The root call that picks the
\* move (get_best_move) is not in the sources: it is taken to run the same
\* loop as _negamax and to keep the first move with the highest score.

\* float('inf')
Infinity == 1000000

TreeMoves == {1, 2}
TreeOrders == {<<1, 2>>, <<2, 1>>}
LeafValues == {-1, 0, 1, 2}
LeafPaths == [1..TreeDepth -> TreeMoves]
GameTrees == [LeafPaths -> LeafValues]

\* The window of the recursive call negated but not swapped: (-alpha, -beta).
child_window_not_swapped(alpha, beta) == <<-alpha, -beta>>

\* The window of the recursive call: (-beta, -alpha).
child_window(alpha, beta) == <<-beta, -alpha>>

RECURSIVE negamax(_, _, _, _, _, _, _)
RECURSIVE negamax_moves(_, _, _, _, _, _, _, _, _)

\* The loop of _negamax over the ordered moves still to be searched.
negamax_moves(tree, order, path, depth, alpha, beta, color, moves, max_score) ==
    IF moves = <<>> THEN max_score
    ELSE LET window == child_window(alpha, beta)
             score == -negamax(tree, order, Append(path, Head(moves)),
                               depth - 1, window[1], window[2], -color)
             new_max == Max(max_score, score)
             new_alpha == Max(alpha, score)
         IN IF new_alpha >= beta THEN new_max
            ELSE negamax_moves(tree, order, path, depth, new_alpha, beta,
                               color, Tail(moves), new_max)

\* NegamaxStrategy._negamax
negamax(tree, order, path, depth, alpha, beta, color) ==
    IF depth = 0 THEN color * tree[path]
    ELSE negamax_moves(tree, order, path, depth, alpha, beta, color,
                       order, -Infinity)

RECURSIVE root_moves(_, _, _, _, _, _)

\* The root loop: the first move with the highest score is kept.
root_moves(tree, order, depth, alpha, moves, best) ==
    IF moves = <<>> THEN best
    ELSE LET window == child_window(alpha, Infinity)
             score == -negamax(tree, order, <<Head(moves)>>, depth - 1,
                               window[1], window[2], -1)
             new_best == IF score > best.score
                         THEN [score |-> score, move |-> Head(moves)]
                         ELSE best
         IN root_moves(tree, order, depth, Max(alpha, score), Tail(moves),
                       new_best)

\* NegamaxStrategy.get_best_move
negamax_get_best_move(tree, order, depth) ==
    root_moves(tree, order, depth, -Infinity, order,
               [score |-> -Infinity, move |-> 0])

\* Negamax run full-width: no window, every move of every position searched.
RECURSIVE full_width(_, _, _, _)
full_width(tree, path, depth, color) ==
    IF depth = 0 THEN color * tree[path]
    ELSE LET scores == {-full_width(tree, Append(path, m), depth - 1, -color) :
                           m \in TreeMoves}
         IN CHOOSE s \in scores : \A t \in scores : t <= s

\* The full-width score of a root move.
full_width_move(tree, depth, m) == -full_width(tree, <<m>>, depth - 1, -1)

\* The root moves with the highest full-width score.
full_width_best(tree, depth) ==
    {m \in TreeMoves :
        \A n \in TreeMoves :
            full_width_move(tree, depth, n) <= full_width_move(tree, depth, m)}

InitTree == InitWith(RookEnding)

\* _negamax(root, TreeDepth, -inf, +inf, 1) and the root loop on one game
\* tree with one move ordering.
SearchGameTree ==
    /\ calls = 0
    /\ calls' = 1
    /\ lastOp' = "_negamax"
    /\ ret' = "None"
    /\ \E tree \in GameTrees, order \in TreeOrders :
          /\ args' = [op |-> "_negamax", tree |-> tree, order |-> order,
                      depth |-> TreeDepth]
          /\ out' = [raised |-> "none",
                     value |-> [score |-> negamax(tree, order, <<>>, TreeDepth,
                                                  -Infinity, Infinity, 1),
                                best |-> negamax_get_best_move(tree, order,
                                                               TreeDepth)]]
    /\ UNCHANGED <<gs, pre, stats, config, search>>

NextTree == SearchGameTree

SpecTree == InitTree /\ [][NextTree]_vars

ConfigOptions ==
    {"thinking_time", "search_depth", "max_simulations", "use_opening_book"}

\* C25: evaluate_position raises a configuration error whenever the colour
\* is unset; the colour changes only in a configure call that passes
\* player_color, and a configure call leaves every option it omits at its
\* previous value.
C25_UnsetColourFailsLoudly ==
    [][/\ (lastOp' = "evaluate_position" /\ config.color = NoColor)
           => out'.raised = "ValueError"
       /\ config'.color # config.color
           => (lastOp' = "configure" /\ "player_color" \in DOMAIN args'.kwargs)
       /\ lastOp' = "configure"
           => /\ \A key \in ConfigOptions \ DOMAIN args'.kwargs :
                   config'[key] = config[key]
              /\ "player_color" \notin DOMAIN args'.kwargs
                   => config'.color = config.color]_vars

\* C25 witness: an evaluation raised after a configure call that passed the
\* four options of AIPlayer.get_move and no player_color.
C25_Witness ==
    /\ lastOp = "evaluate_position"
    /\ out.raised = "ValueError"
    /\ config.color = NoColor
    /\ config.thinking_time = 500 /\ config.search_depth = 1
    /\ config.max_simulations = 100

----------------------------------------------------------------------------
\* core/board.py : place_piece, remove_piece, move_piece and clear called
\* directly on a Board, with pieces that exist before they are placed.

\* Board.place_piece for a piece object that already exists.
place_piece_object(b, piece, sq) ==
    IF is_occupied(b, sq)
    THEN b
    ELSE [b EXCEPT !.squares[sq] = piece,
                   !.obj[piece].square = sq,
                   !.pieces[b.obj[piece].color] = @ \cup {piece}]

\* Board.clear : remove_piece on every occupied square.
RECURSIVE clear_squares(_, _)
clear_squares(b, todo) ==
    IF todo = {} THEN b
    ELSE LET sq == CHOOSE x \in todo : TRUE
         IN clear_squares(remove_piece(b, sq), todo \ {sq})

clear(b) == clear_squares(b, {sq \in Squares : b.squares[sq] # NoPiece})

\* A white rook, a white knight and a black rook, constructed and not placed.
NewPiece(pt, color) ==
    [piece_type |-> pt, color |-> color, square |-> NoSquare,
     has_moved |-> FALSE, can_be_captured_en_passant |-> FALSE]

BoardPieces ==
    <<NewPiece(ROOK, WHITE), NewPiece(KNIGHT, WHITE), NewPiece(ROOK, BLACK)>>

\* a1, b1, a2
BoardSquares == {<<7, 0>>, <<7, 1>>, <<6, 0>>}

InitBoard == InitOn([EmptyBoard EXCEPT !.obj = BoardPieces])

\* What a Board call leaves alone, and the bookkeeping of the call.
BoardFrame(op) ==
    /\ calls < BoardCalls
    /\ calls' = calls + 1
    /\ lastOp' = op
    /\ ret' = "None"
    /\ UNCHANGED <<current_player, status, phase, move_history, captured_pieces,
                   position_history, fifty_move_counter, moves_played, last_move,
                   pre, aux>>

BoardPlacePiece ==
    /\ \E piece \in 1..Len(board.obj), sq \in BoardSquares :
          board' = place_piece_object(board, piece, sq)
    /\ BoardFrame("place_piece")

BoardRemovePiece ==
    /\ \E sq \in BoardSquares : board' = remove_piece(board, sq)
    /\ BoardFrame("remove_piece")

BoardMovePiece ==
    /\ \E from_square \in BoardSquares, to_square \in BoardSquares :
          board' = move_piece(board, from_square, to_square)
    /\ BoardFrame("move_piece")

BoardClear ==
    /\ board' = clear(board)
    /\ BoardFrame("clear")

NextBoard ==
    BoardPlacePiece \/ BoardRemovePiece \/ BoardMovePiece \/ BoardClear

SpecBoard == InitBoard /\ [][NextBoard]_vars

\* The squares that hold a piece.
SquaresOf(b, p) == {sq \in Squares : b.squares[sq] = p}

\* The pieces in the captured list.
CapturedOf(b) == {b.captured_pieces[i] : i \in 1..Len(b.captured_pieces)}

\* C24: after any sequence of place_piece, remove_piece, move_piece and
\* clear calls, the piece of every occupied square is in the live set of its
\* colour and in no other, every live piece stands on the one square its
\* back-reference names, no piece occupies two squares, and every captured
\* piece is detached and in neither live set.
C24_BoardConsistent ==
    /\ \A sq \in Squares :
          board.squares[sq] # NoPiece =>
              LET p == board.squares[sq]
              IN /\ p \in board.pieces[board.obj[p].color]
                 /\ p \notin board.pieces[opposite(board.obj[p].color)]
    /\ \A p \in LivePieces(board) :
          /\ board.obj[p].square \in Squares
          /\ SquaresOf(board, p) = {board.obj[p].square}
    /\ \A p \in 1..Len(board.obj) : Cardinality(SquaresOf(board, p)) <= 1
    /\ \A p \in CapturedOf(board) :
          /\ board.obj[p].square = NoSquare
          /\ p \notin LivePieces(board)

\* A piece stands on two squares.
PieceOnTwoSquares ==
    \E p \in 1..Len(board.obj) : Cardinality(SquaresOf(board, p)) = 2

\* A piece stands on a square and is in the captured list and in no live set.
CapturedPieceOnBoard ==
    \E p \in CapturedOf(board) :
        SquaresOf(board, p) # {} /\ p \notin LivePieces(board)

----------------------------------------------------------------------------
\* ai/strategies/negamax.py : _negamax on a live GameState.  The search works
\* on the caller's GameState in place; it is written here as a function from
\* the GameState at the call to the GameState at the return.  _negamax calls
\* game_state.undo_move(), is_game_over(), move.is_capture(),
\* move.is_promotion(), board.get_piece(move.to_square) and
\* captured_piece.type_name; they are read as undo_last_move, the
\* is_game_over property, the Move properties, the occupant of the end square
\* and the name of its piece type.  is_time_up, _evaluate_material,
\* _evaluate_piece_positions, _evaluate_king_safety and Square.is_center are
\* defined nowhere in the sources.  The clock is an input: the budget is used
\* up from some node of the search on.  Scores are in hundredths of a pawn.

\* The GameState as one value.
GameStateOf ==
    [board |-> board, current_player |-> current_player, status |-> status,
     phase |-> phase, move_history |-> move_history,
     captured_pieces |-> captured_pieces,
     position_history |-> position_history,
     fifty_move_counter |-> fifty_move_counter,
     moves_played |-> moves_played, last_move |-> last_move]

\* GameState.make_move on a GameState value: the value after the call.
GameState_make_move(S, move) ==
    IF is_game_over(S.status) \/ ~is_valid_move(S.board, move)
    THEN S
    ELSE LET captured_piece == board_captured(S.board, move)
             new_board == board_make_move(S.board, move)
             new_history == Append(S.position_history, BoardStr(S.board))
             new_captured == IF captured_piece # NoPiece
                             THEN Append(S.captured_pieces, captured_piece)
                             ELSE S.captured_pieces
             new_counter ==
                 IF captured_piece # NoPiece THEN 0
                 ELSE IF S.board.obj[move.moving_piece].piece_type = "PAWN" THEN 0
                 ELSE S.fifty_move_counter + 1
         IN [board |-> new_board,
             current_player |-> opposite(S.current_player),
             status |-> update_game_status(new_board, S.current_player,
                                           new_counter, new_history),
             phase |-> update_game_phase(S.moves_played + 1, new_captured),
             move_history |-> Append(S.move_history, move),
             captured_pieces |-> new_captured,
             position_history |-> new_history,
             fifty_move_counter |-> new_counter,
             moves_played |-> S.moves_played + 1,
             last_move |-> move]

\* GameState.undo_last_move on a GameState value: the value after the call.
GameState_undo_last_move(S) ==
    IF S.move_history = <<>>
    THEN S
    ELSE LET undone == S.move_history[Len(S.move_history)]
             new_moves == SubSeq(S.move_history, 1, Len(S.move_history) - 1)
             new_history == SubSeq(S.position_history, 1,
                                   Len(S.position_history) - 1)
             new_board == board_undo_move(S.board)
             new_captured ==
                 IF undone.captured_piece # NoPiece
                 THEN SubSeq(S.captured_pieces, 1, Len(S.captured_pieces) - 1)
                 ELSE S.captured_pieces
             new_counter ==
                 IF \/ undone.captured_piece # NoPiece
                    \/ S.board.obj[undone.moving_piece].piece_type = "PAWN"
                 THEN 0
                 ELSE S.fifty_move_counter - 1
             new_player == opposite(S.current_player)
         IN [board |-> new_board,
             current_player |-> new_player,
             status |-> update_game_status(new_board, new_player,
                                           new_counter, new_history),
             phase |-> update_game_phase(S.moves_played - 1, new_captured),
             move_history |-> new_moves,
             captured_pieces |-> new_captured,
             position_history |-> new_history,
             fifty_move_counter |-> new_counter,
             moves_played |-> S.moves_played - 1,
             last_move |-> IF new_moves # <<>>
                           THEN new_moves[Len(new_moves)] ELSE NoMove]

\* NegamaxStrategy._piece_values
negamax_piece_values(pt) ==
    CASE pt = PAWN -> 100
      [] pt = KNIGHT -> 320
      [] pt = BISHOP -> 330
      [] pt = ROOK -> 500
      [] pt = QUEEN -> 900
      [] pt = KING -> 20000
      [] OTHER -> 0

\* Square.is_center : d4, e4, d5, e5.
is_center(sq) == sq[1] \in {3, 4} /\ sq[2] \in {3, 4}

\* NegamaxStrategy._rate_move
rate_move(b, move) ==
    (IF is_capture(move) /\ b.squares[move.end_square] # NoPiece
     THEN 10 * negamax_piece_values(b.obj[b.squares[move.end_square]].piece_type)
     ELSE 0)
    + (IF is_center(move.end_square) THEN 30 ELSE 0)
    + (IF move.is_promotion THEN 900 ELSE 0)

\* The place of a move in the list get_legal_moves returns: by squares, from
\* a8 on or from h1 on.
list_place(move, a8_first) ==
    LET k == ((move.start_square[1] * 8 + move.start_square[2]) * 64
              + move.end_square[1] * 8 + move.end_square[2]) * 4
             + (IF move.is_castle THEN 1 ELSE 0)
             + (IF move.is_en_passant THEN 2 ELSE 0)
    IN IF a8_first THEN k ELSE -k

\* NegamaxStrategy._order_moves : a stable sort by descending rate.
RECURSIVE order_moves(_, _, _)
order_moves(b, moves, a8_first) ==
    IF moves = {}
    THEN <<>>
    ELSE LET first == CHOOSE x \in moves : \A y \in moves :
                 \/ rate_move(b, x) > rate_move(b, y)
                 \/ /\ rate_move(b, x) = rate_move(b, y)
                    /\ list_place(x, a8_first) <= list_place(y, a8_first)
         IN <<first>> \o order_moves(b, moves \ {first}, a8_first)

\* _evaluate_material + _evaluate_piece_positions + _evaluate_king_safety :
\* White's material, placement and king shelter less Black's.
static_score(b) ==
    LET RECURSIVE Sum(_)
        Sum(S) == IF S = {} THEN 0
                  ELSE LET p == CHOOSE q \in S : TRUE
                       IN negamax_piece_values(b.obj[p].piece_type) + Sum(S \ {p})
        no_castle == [c \in PieceColor |-> FALSE]
    IN Sum(get_pieces(b, WHITE)) - Sum(get_pieces(b, BLACK))
       + calculate_position_score(b, WHITE) * 10
       + calculate_king_safety(b, WHITE, no_castle) * 10

\* NegamaxStrategy._evaluate_position
negamax_evaluate_position(S) ==
    IF S.current_player = WHITE
    THEN static_score(S.board) ELSE -static_score(S.board)

\* is_time_up at the n-th node of a search whose budget runs out at node
\* time_up_at (0: it never does).
is_time_up(n, time_up_at) == time_up_at # 0 /\ n >= time_up_at

\* NegamaxStrategy._negamax : score, GameState at the return and number of
\* nodes counted.  negamax_search_moves is its loop over the ordered moves
\* and negamax_after_child the part of the loop body that follows the
\* recursive call.
RECURSIVE negamax_search(_, _, _, _, _, _, _)
RECURSIVE negamax_search_moves(_, _, _, _, _, _, _, _, _)
RECURSIVE negamax_after_child(_, _, _, _, _, _, _, _)
negamax_after_child(child, depth, alpha, beta, color, clock, moves, max_score) ==
    LET score == -child.score
        new_max == Max(max_score, score)
        new_alpha == Max(alpha, score)
    IN CHOOSE result \in
           {IF new_alpha >= beta
            THEN [score |-> new_max, state |-> undone, nodes |-> child.nodes]
            ELSE negamax_search_moves(undone, depth, new_alpha, beta, color,
                                      child.nodes, clock, Tail(moves), new_max) :
               undone \in {GameState_undo_last_move(child.state)}} :
           TRUE

negamax_search_moves(S, depth, alpha, beta, color, nodes, clock, moves, max_score) ==
    IF moves = <<>>
    THEN [score |-> max_score, state |-> S, nodes |-> nodes]
    ELSE CHOOSE result \in
             {negamax_after_child(child, depth, alpha, beta, color, clock,
                                  moves, max_score) :
                 child \in {negamax_search(made, depth - 1, -beta, -alpha,
                                           -color, nodes, clock) :
                               made \in {GameState_make_move(S, Head(moves))}}} :
             TRUE

negamax_search(S, depth, alpha, beta, color, nodes, clock) ==
    IF depth = 0 \/ is_game_over(S.status)
    THEN [score |-> color * negamax_evaluate_position(S), state |-> S,
          nodes |-> nodes + 1]
    ELSE IF is_time_up(nodes + 1, clock.time_up_at)
    THEN [score |-> color * negamax_evaluate_position(S), state |-> S,
          nodes |-> nodes + 1]
    ELSE CHOOSE result \in
             {negamax_search_moves(S, depth, alpha, beta, color, nodes + 1,
                                   clock, ordered_moves, -Infinity) :
                 ordered_moves \in
                     {order_moves(S.board,
                                  gs_get_legal_moves(S.board, S.current_player),
                                  clock.a8_first)}} :
             TRUE

\* Pawns e2, h2 against a pawn on e3.
BlockedPawns == <<<<PAWN, WHITE, <<6, 4>>>>, <<PAWN, WHITE, <<6, 7>>>>,
                  <<PAWN, BLACK, <<5, 4>>>>>>

SearchPositions == {PawnOpening, BlockedPawns}

\* The nodes at which the thinking time can run out.
TimeUpAt == {0, 1, 2}

InitSearch == \E placements \in SearchPositions : InitWith(placements)

\* The caller plays a move GameState offers.
SearchPlay ==
    /\ calls < SearchCalls
    /\ calls' = calls + 1
    /\ \E m \in gs_get_legal_moves(board, current_player) : make_move(m)

\* A caller runs _negamax on the live GameState with the full window and the
\* colour of the side to move.
NegamaxSearch ==
    /\ calls < SearchCalls
    /\ calls' = calls + 1
    /\ \E depth \in 0..SearchDepth, time_up_at \in TimeUpAt, a8_first \in BOOLEAN :
          LET color == IF current_player = WHITE THEN 1 ELSE -1
              clock == [time_up_at |-> time_up_at, a8_first |-> a8_first]
          IN \E r \in {negamax_search(GameStateOf, depth, -Infinity, Infinity,
                                      color, 0, clock)} :
             /\ board' = r.state.board
             /\ current_player' = r.state.current_player
             /\ status' = r.state.status
             /\ phase' = r.state.phase
             /\ move_history' = r.state.move_history
             /\ captured_pieces' = r.state.captured_pieces
             /\ position_history' = r.state.position_history
             /\ fifty_move_counter' = r.state.fifty_move_counter
             /\ moves_played' = r.state.moves_played
             /\ last_move' = r.state.last_move
             /\ args' = [op |-> "negamax", depth |-> depth,
                         time_up_at |-> time_up_at, a8_first |-> a8_first,
                         color |-> color, moves_at_call |-> Len(move_history)]
             /\ out' = [raised |-> "none", value |-> r.score]
             /\ stats' = [stats EXCEPT !.nodes_evaluated = @ + r.nodes]
    /\ lastOp' = "negamax"
    /\ ret' = "None"
    /\ UNCHANGED <<pre, config, search>>

NextSearch == SearchPlay \/ NegamaxSearch

SpecSearch == InitSearch /\ [][NextSearch]_vars

\* C22 : when _negamax returns, the GameState it was given equals its state
\* at the call: every move the search applied has been undone, and no move
\* played before the search started has been taken back.
C22_StackDiscipline ==
    [][lastOp' = "negamax" /\ calls' = calls + 1 => UNCHANGED gs]_vars

\* A search has taken back a move that was played before it started.
SearchUndidEarlierMove ==
    lastOp = "negamax" /\ Len(move_history) < args.moves_at_call

\* What the side to move is ahead by in material, placement and king shelter.
Advantage(b, color) == IF color = WHITE THEN static_score(b) ELSE -static_score(b)

\* C26 : the value _negamax returns at a leaf is the static evaluation signed
\* for the side to move at that leaf, positive when the side to move is ahead
\* and negative when it is behind, whichever colour is to move.
C26_LeafSignedForSideToMove ==
    lastOp = "negamax" /\ args.depth = 0
        => out.value = Advantage(board, current_player)

\* The leaf value carries the sign of the side to move when White is to move.
LeafSignedForWhiteToMove ==
    lastOp = "negamax" /\ args.depth = 0 /\ current_player = WHITE
        => out.value = Advantage(board, current_player)

\* Black is to move at a leaf and behind, and the leaf value is positive.
PositiveLeafForSideBehind ==
    /\ lastOp = "negamax" /\ args.depth = 0 /\ current_player = BLACK
    /\ Advantage(board, BLACK) < 0
    /\ out.value > 0

----------------------------------------------------------------------------
\* ai/strategies/mcts.py : the simulation loop of get_best_move, one step per
\* phase.  GameState objects are told apart: object 0 is the GameState of the
\* caller, object k the k-th one clone() made; a node holds the number of its
\* object.  GameState.clone and get_result are defined nowhere in the
\* sources; clone is a full copy and get_result the outcome for the side to
\* move.  Results and win totals are counted in half points (2 for a win,
\* 1 for a draw, 0 for a loss), so 1 - result is written 2 - result.
\* node.game_state.is_game_over() is read as the is_game_over property.

\* The GameState an object holds.
Value(heap, ref) == IF ref = 0 THEN GameStateOf ELSE heap[ref]

\* GameState.clone
clone(heap, ref) == [heap |-> Append(heap, Value(heap, ref)), ref |-> Len(heap) + 1]

\* _expand applying the move to the node's own GameState.
expand_state_shared(heap, ref) == [heap |-> heap, ref |-> ref]

\* _expand : new_state = node.game_state.clone()
expand_state(heap, ref) == clone(heap, ref)

\* What a write of S to an object leaves: the objects and the caller's
\* GameState.
WriteState(heap, ref, S) ==
    IF ref = 0 THEN [heap |-> heap, live |-> S]
    ELSE [heap |-> [heap EXCEPT ![ref] = S], live |-> GameStateOf]

\* GameState.get_result, in half points
get_result(S) == IF S.status = CHECKMATE THEN 0 ELSE 1

\* MCTSNode.__init__ on an object holding S; created keeps S for the
\* properties.
MCTSNode(ref, S, parent, move) ==
    [game_state |-> ref, parent |-> parent, move |-> move, children |-> <<>>,
     wins |-> 0, visits |-> 0,
     untried_moves |-> gs_get_legal_moves(S.board, S.current_player),
     created |-> S]

\* exploration * sqrt(log(N) / n) for exploration = 1.414, in millionths
uct_exploration(N, n) ==
    <<<<0>>,
      <<1177232, 832428>>,
      <<1482079, 1047988, 855679>>,
      <<1664857, 1177232, 961206, 832428>>,
      <<1793851, 1268444, 1035680, 896925, 802234>>,
      <<1892732, 1338364, 1092769, 946366, 846455, 772704>>>>[N][n]

\* uct_score(a) > uct_score(b) for two children of a node: an unvisited child
\* scores infinity, a visited one wins / visits plus the exploration term.
uct_greater(nodes, node, a, b, explore) ==
    LET va == nodes[a].visits
        vb == nodes[b].visits
        ea == IF explore THEN uct_exploration(nodes[node].visits, va) ELSE 0
        eb == IF explore THEN uct_exploration(nodes[node].visits, vb) ELSE 0
    IN IF vb = 0 THEN FALSE
       ELSE IF va = 0 THEN TRUE
       ELSE (nodes[a].wins * 500000 + ea * va) * vb
            > (nodes[b].wins * 500000 + eb * vb) * va

\* MCTSStrategy._get_best_child : max(children, key=uct_score), the first of
\* the children no other child beats; 0 for None.
get_best_child(nodes, node, explore) ==
    LET children == nodes[node].children
        best(i) == \A j \in 1..Len(children) :
                       ~uct_greater(nodes, node, children[j], children[i], explore)
    IN IF children = <<>> THEN 0
       ELSE children[CHOOSE i \in 1..Len(children) :
                         best(i) /\ \A k \in 1..(i - 1) : ~best(k)]

\* MCTSStrategy._select
RECURSIVE select(_, _)
select(nodes, node) ==
    IF nodes[node].untried_moves = {} /\ nodes[node].children # <<>>
    THEN select(nodes, get_best_child(nodes, node, TRUE))
    ELSE node

\* _backpropagate handing the same result to every level.
RECURSIVE backpropagate_without_inversion(_, _, _)
backpropagate_without_inversion(nodes, node, result) ==
    IF node = 0 THEN nodes
    ELSE backpropagate_without_inversion(
             [nodes EXCEPT ![node].visits = @ + 1, ![node].wins = @ + result],
             nodes[node].parent, result)

\* _backpropagate updating the node it is given and none of its ancestors.
backpropagate_leaf_only(nodes, node, result) ==
    IF node = 0 THEN nodes
    ELSE [nodes EXCEPT ![node].visits = @ + 1, ![node].wins = @ + result]

\* MCTSStrategy._backpropagate
RECURSIVE backpropagate(_, _, _)
backpropagate(nodes, node, result) ==
    IF node = 0 THEN nodes
    ELSE backpropagate(
             [nodes EXCEPT ![node].visits = @ + 1, ![node].wins = @ + result],
             nodes[node].parent, 2 - result)

\* The loop test of get_best_move admitting one simulation past the cap.
simulation_allowed_at_cap(simulation_count, max_simulations) ==
    simulation_count <= max_simulations

\* The loop test of get_best_move, the clock aside.
simulation_allowed(simulation_count, max_simulations) ==
    simulation_count < max_simulations

\* A knight on a1 and a pawn on h8 against a pawn on h2.
KnightAndPawns == <<<<KNIGHT, WHITE, <<7, 0>>>>, <<PAWN, WHITE, <<0, 7>>>>,
                    <<PAWN, BLACK, <<6, 7>>>>>>

\* Pawns a6 and a7 against a pawn on h2: the advance a6-a8 is offered and
\* rejected while a7 is occupied.
StackedPawns == <<<<PAWN, WHITE, <<2, 0>>>>, <<PAWN, WHITE, <<1, 0>>>>,
                  <<PAWN, BLACK, <<6, 7>>>>>>

\* Pawns a7 and h8 against a pawn on h2: White's game is over after either
\* move of the a pawn.
LastStep == <<<<PAWN, WHITE, <<1, 0>>>>, <<PAWN, WHITE, <<0, 7>>>>,
              <<PAWN, BLACK, <<6, 7>>>>>>

\* A pawn on h8 against a pawn on h2: no move is offered to White.
NoMoveOffered == <<<<PAWN, WHITE, <<0, 7>>>>, <<PAWN, BLACK, <<6, 7>>>>>>

MCTSPositions == {KnightAndPawns, StackedPawns, LastStep, NoMoveOffered}

InitMCTS == \E placements \in MCTSPositions : InitWith(placements)

\* The caller's GameState becomes S.
SetGameState(S) ==
    /\ board' = S.board
    /\ current_player' = S.current_player
    /\ status' = S.status
    /\ phase' = S.phase
    /\ move_history' = S.move_history
    /\ captured_pieces' = S.captured_pieces
    /\ position_history' = S.position_history
    /\ fifty_move_counter' = S.fifty_move_counter
    /\ moves_played' = S.moves_played
    /\ last_move' = S.last_move

\* The search is at one of the places pcs.
At(pcs) == search.op = "mcts" /\ search.pc \in pcs

\* get_best_move up to its loop, called once on the caller's GameState: the
\* root node is made on that GameState.
MCTSStart ==
    /\ search.op = "none"
    /\ calls' = calls + 1
    /\ \E max_simulations \in 0..MaxSimulations :
          /\ search' = [op |-> "mcts", pc |-> "loop",
                        max_simulations |-> max_simulations,
                        simulation_count |-> 0,
                        nodes |-> <<MCTSNode(0, GameStateOf, 0, NoMove)>>,
                        heap |-> <<>>, node |-> 0, state |-> 0,
                        at_call |-> GameStateOf]
          /\ args' = [op |-> "get_best_move", strategy |-> "mcts",
                      max_simulations |-> max_simulations, time_up |-> FALSE]
    /\ lastOp' = "get_best_move"
    /\ ret' = "None"
    /\ UNCHANGED <<gs, pre, out, stats, config>>

\* One pass through the loop body up to the playout: _select, then either
\* the backpropagation of a finished game or _expand and the clone _simulate
\* starts from.
MCTSSimulation ==
    /\ At({"loop"})
    /\ simulation_allowed(search.simulation_count, search.max_simulations)
    /\ ret' = "None"
    /\ UNCHANGED <<calls, pre, out, stats, config>>
    /\ LET nodes == search.nodes
           node == select(nodes, 1)
           ref == nodes[node].game_state
           S == Value(search.heap, ref)
       IN IF is_game_over(S.status)
          THEN /\ search' = [search EXCEPT
                                !.nodes = backpropagate(@, node, get_result(S)),
                                !.simulation_count = @ + 1]
               /\ lastOp' = "backpropagate"
               /\ args' = [op |-> "backpropagate", node |-> node,
                           result |-> get_result(S)]
               /\ UNCHANGED gs
          ELSE IF nodes[node].untried_moves = {}
          THEN /\ search' = [search EXCEPT
                                !.pc = "playout", !.node = node,
                                !.heap = clone(@, ref).heap,
                                !.state = clone(search.heap, ref).ref]
               /\ lastOp' = "expand"
               /\ args' = [op |-> "expand", node |-> node, move |-> NoMove]
               /\ UNCHANGED gs
          ELSE \E move \in nodes[node].untried_moves :
                  LET new_state == expand_state(search.heap, ref)
                      made == GameState_make_move(
                                  Value(new_state.heap, new_state.ref), move)
                      written == WriteState(new_state.heap, new_state.ref, made)
                      child == Len(nodes) + 1
                  IN /\ search' = [search EXCEPT
                                      !.pc = "playout", !.node = child,
                                      !.nodes = Append(
                                          [nodes EXCEPT
                                              ![node].untried_moves = @ \ {move},
                                              ![node].children = Append(@, child)],
                                          MCTSNode(new_state.ref, made, node, move)),
                                      !.heap = Append(written.heap, made),
                                      !.state = Len(written.heap) + 1]
                     /\ lastOp' = "expand"
                     /\ args' = [op |-> "expand", node |-> node, move |-> move]
                     /\ SetGameState(written.live)

\* One pass through the loop of _simulate, or its exit: get_result, the
\* backpropagation and the end of the pass through the loop of
\* get_best_move.
MCTSPlayout ==
    /\ At({"playout"})
    /\ ret' = "None"
    /\ UNCHANGED <<gs, calls, pre, out, stats, config>>
    /\ LET S == search.heap[search.state]
           moves == gs_get_legal_moves(S.board, S.current_player)
       IN IF is_game_over(S.status) \/ moves = {}
          THEN /\ search' = [search EXCEPT
                                !.pc = "loop",
                                !.nodes = backpropagate(@, search.node,
                                                        get_result(S)),
                                !.simulation_count = @ + 1,
                                !.heap = SubSeq(@, 1, Len(@) - 1),
                                !.node = 0, !.state = 0]
               /\ lastOp' = "backpropagate"
               /\ args' = [op |-> "backpropagate", node |-> search.node,
                           result |-> get_result(S)]
          ELSE \E move \in moves :
                  /\ search' = [search EXCEPT
                                   !.heap[search.state] =
                                       GameState_make_move(S, move)]
                  /\ lastOp' = "simulate"
                  /\ args' = [op |-> "simulate", node |-> search.node,
                              move |-> move]

\* The loop of get_best_move ends, on the simulation cap or on the clock, and
\* the move of the best child of the root is returned.
MCTSReturn ==
    /\ At({"loop"})
    /\ LET best_child == get_best_child(search.nodes, 1, FALSE)
           time_up == simulation_allowed(search.simulation_count,
                                         search.max_simulations)
       IN /\ IF best_child # 0
             THEN /\ stats' = [nodes_evaluated |-> search.simulation_count,
                               best_moves |-> <<search.nodes[best_child].move>>]
                  /\ out' = [raised |-> "none",
                             value |-> search.nodes[best_child].move]
             ELSE /\ out' = [raised |-> "none", value |-> NoMove]
                  /\ UNCHANGED stats
          /\ args' = [op |-> "get_best_move", strategy |-> "mcts",
                      max_simulations |-> search.max_simulations,
                      time_up |-> time_up]
    /\ search' = [search EXCEPT !.pc = "done"]
    /\ lastOp' = "return"
    /\ ret' = "None"
    /\ UNCHANGED <<gs, calls, pre, config>>

\* _backpropagate called on a node of the tree a search has built.
Backpropagate ==
    /\ At({"done"})
    /\ \E node \in 1..Len(search.nodes), result \in {0, 1, 2} :
          /\ search' = [search EXCEPT
                           !.pc = "called",
                           !.nodes = backpropagate(@, node, result)]
          /\ args' = [op |-> "backpropagate", node |-> node, result |-> result]
    /\ lastOp' = "backpropagate"
    /\ ret' = "None"
    /\ UNCHANGED <<gs, calls, pre, out, stats, config>>

NextMCTS ==
    MCTSStart \/ MCTSSimulation \/ MCTSPlayout \/ MCTSReturn \/ Backpropagate

SpecMCTS == InitMCTS /\ [][NextMCTS]_vars

\* The program runs on: the loop of _simulate makes its next pass, and
\* get_best_move leaves its loop once it makes no further pass.
SpecMCTSFair ==
    /\ SpecMCTS
    /\ WF_vars(MCTSPlayout)
    /\ WF_vars(MCTSReturn)

\* The node k levels above a node of the tree, 0 past the root.
RECURSIVE Ancestor(_, _, _)
Ancestor(nodes, node, k) ==
    IF k = 0 \/ node = 0 THEN node
    ELSE Ancestor(nodes, nodes[node].parent, k - 1)

\* The GameState objects the nodes of the tree hold.
NodeObjects == {search.nodes[n].game_state : n \in 1..Len(search.nodes)}

C27_Backpropagation ==
    [][lastOp' = "backpropagate" =>
          /\ Len(search'.nodes) = Len(search.nodes)
          /\ \A i \in 1..Len(search.nodes) :
                LET levels == {k \in 0..Len(search.nodes) :
                                  Ancestor(search.nodes, args'.node, k) = i}
                IN IF levels = {}
                   THEN /\ search'.nodes[i].visits = search.nodes[i].visits
                        /\ search'.nodes[i].wins = search.nodes[i].wins
                   ELSE /\ search'.nodes[i].visits = search.nodes[i].visits + 1
                        /\ \A k \in levels :
                              search'.nodes[i].wins =
                                  search.nodes[i].wins
                                  + (IF k % 2 = 0 THEN args'.result
                                     ELSE 2 - args'.result)]_vars

\* A win has been backpropagated from a grandchild of the root.
C27_Witness ==
    /\ At({"called"})
    /\ lastOp = "backpropagate"
    /\ args.result = 2
    /\ Ancestor(search.nodes, args.node, 2) = 1

----------------------------------------------------------------------------
\* Pawn moves: one pawn on its start row or one step from its last row, on
\* the a- or e-file, with the squares in front of it, two ahead of it and
\* diagonally ahead of it empty or holding a knight of either colour.  The
\* pieces are as place_piece leaves them.

PawnFiles == {0, 4}

Occupants == {"empty", "enemy", "own"}

other_color(color) == IF color = WHITE THEN BLACK ELSE WHITE

\* The placement of a knight for an occupant, none for "empty" or for a square
\* off the board.
Occupied(occupant, color, sq) ==
    IF occupant = "empty" \/ ~is_valid_position(sq[1], sq[2])
    THEN <<>>
    ELSE <<<<KNIGHT, IF occupant = "own" THEN color ELSE other_color(color), sq>>>>

PawnPosition(color, row, col, front, two, diag) ==
    LET dir == direction(color)
    IN <<<<PAWN, color, <<row, col>>>>>>
       \o Occupied(front, color, <<row + dir, col>>)
       \o Occupied(two, color, <<row + 2 * dir, col>>)
       \o Occupied(diag, color, <<row + dir, col + 1>>)

PawnRows(color) == {start_row(color), promotion_row(color) - direction(color)}

InitPawn ==
    \E color \in PieceColor, col \in PawnFiles, front \in Occupants,
       two \in Occupants, diag \in Occupants :
        \E row \in PawnRows(color) :
            /\ (row # start_row(color) => two = "empty")
            /\ current_player = WHITE
            /\ board = Setup(EmptyBoard, PawnPosition(color, row, col, front, two, diag))
            /\ status = ACTIVE
            /\ phase = OPENING
            /\ move_history = <<>>
            /\ captured_pieces = <<>>
            /\ position_history = <<>>
            /\ fifty_move_counter = 0
            /\ moves_played = 0
            /\ last_move = NoMove
            /\ lastOp = "init"
            /\ ret = "None"
            /\ pre = Observed
            /\ calls = 0
            /\ args = NoArgs
            /\ out = NoOut
            /\ stats = AIStats
            /\ config = DefaultConfig
            /\ search = NoSearch

\* The pawns standing on the board.
StandingPawns(b) ==
    {p \in Pawns(b, WHITE) \cup Pawns(b, BLACK) : b.obj[p].square # NoSquare}

PawnPlay ==
    /\ calls < PawnCalls
    /\ calls' = calls + 1
    /\ \E m \in gs_get_legal_moves(board, current_player) : make_move(m)

\* pawn.get_legal_moves(board), the list kept in out.
PawnMovesCall ==
    /\ calls < PawnCalls
    /\ calls' = calls + 1
    /\ \E p \in StandingPawns(board) :
          /\ board' = Pawn_after_get_legal_moves(board, p)
          /\ args' = [op |-> "Pawn.get_legal_moves", piece |-> p]
          /\ out' = [raised |-> "none", value |-> Pawn_get_legal_moves(board, p)]
    /\ lastOp' = "Pawn.get_legal_moves"
    /\ ret' = "Moves"
    /\ UNCHANGED <<current_player, status, phase, move_history, captured_pieces,
                   position_history, fifty_move_counter, moves_played, last_move,
                   pre, stats, config, search>>

\* GameRules.get_legal_moves(pawn, board), the list kept in out.
RulesMovesCall ==
    /\ calls < PawnCalls
    /\ calls' = calls + 1
    /\ \E p \in StandingPawns(board) :
          /\ args' = [op |-> "GameRules.get_legal_moves", piece |-> p]
          /\ out' = [raised |-> "none", value |-> get_legal_moves(board, p)]
    /\ lastOp' = "GameRules.get_legal_moves"
    /\ ret' = "Moves"
    /\ UNCHANGED <<gs, pre, stats, config, search>>

NextPawn == PawnPlay \/ PawnMovesCall \/ RulesMovesCall

SpecPawn == InitPawn /\ [][NextPawn]_vars

\* A move that takes a pawn two squares along its file.
TwoSquareAdvance(m) ==
    /\ m.start_square[2] = m.end_square[2]
    /\ Abs(m.end_square[1] - m.start_square[1]) = 2

\* The pawn is unmoved on its start rank, and the square in front of it and
\* the one behind that are empty.
MayAdvanceTwo(b, p) ==
    LET sq == b.obj[p].square
        dir == direction(b.obj[p].color)
    IN /\ ~b.obj[p].has_moved
       /\ sq[1] = start_row(b.obj[p].color)
       /\ b.squares[<<sq[1] + dir, sq[2]>>] = NoPiece
       /\ b.squares[<<sq[1] + 2 * dir, sq[2]>>] = NoPiece

\* C29: a two-square advance is among the moves Pawn.get_legal_moves or
\* GameRules.get_legal_moves returns for a pawn only if the pawn is unmoved on
\* its start rank and the square in front of it and the destination square
\* are both empty.
C29_TwoSquareAdvance ==
    lastOp \in {"Pawn.get_legal_moves", "GameRules.get_legal_moves"}
        => \A m \in out.value :
              TwoSquareAdvance(m) => MayAdvanceTwo(board, args.piece)

\* The same for the moves of Pawn.get_legal_moves alone.
PawnTwoSquareAdvance ==
    lastOp = "Pawn.get_legal_moves"
        => \A m \in out.value :
              TwoSquareAdvance(m) => MayAdvanceTwo(board, args.piece)

\* Pawn.get_legal_moves returned a two-square advance.
PawnAdvancedTwoOffered ==
    /\ lastOp = "Pawn.get_legal_moves"
    /\ \E m \in out.value : TwoSquareAdvance(m)

\* Pawn.get_legal_moves returned no two-square advance for an unmoved pawn on
\* its start rank whose front square is empty and whose destination is not.
PawnAdvanceWithheld ==
    /\ lastOp = "Pawn.get_legal_moves"
    /\ ~board.obj[args.piece].has_moved
    /\ board.obj[args.piece].square[1] = start_row(board.obj[args.piece].color)
    /\ \E m \in out.value : m.start_square[2] = m.end_square[2]
    /\ ~\E m \in out.value : TwoSquareAdvance(m)

PromotionTypes == {QUEEN, ROOK, BISHOP, KNIGHT}

\* The squares of its last rank a pawn can step to: the square in front of it
\* when empty, a square diagonally ahead when an enemy piece stands on it.
LastRankDestinations(b, p) ==
    LET sq == b.obj[p].square
        color == b.obj[p].color
        row == sq[1] + direction(color)
    IN IF row # promotion_row(color)
       THEN {}
       ELSE {d \in {<<row, sq[2] + off>> : off \in {-1, 0, 1}} :
                /\ is_valid_position(d[1], d[2])
                /\ IF d[2] = sq[2]
                   THEN b.squares[d] = NoPiece
                   ELSE /\ b.squares[d] # NoPiece
                        /\ b.obj[b.squares[d]].color # color}

\* C30: for each last-rank destination of the pawn Pawn.get_legal_moves
\* returns exactly four moves, one per promotion type, each flagged as a
\* promotion; every returned move to the last rank is flagged and typed, and
\* no returned move to another rank is flagged.
C30_PromotionFanOut ==
    lastOp = "Pawn.get_legal_moves"
        => LET p == args.piece
               last == promotion_row(board.obj[p].color)
           IN /\ \A d \in LastRankDestinations(board, p) :
                    LET to_d == {m \in out.value : m.end_square = d}
                    IN /\ Cardinality(to_d) = 4
                       /\ {m.promotion_piece_type : m \in to_d} = PromotionTypes
                       /\ \A m \in to_d : m.is_promotion
              /\ \A m \in out.value :
                    m.end_square[1] = last
                        => m.is_promotion /\ m.promotion_piece_type \in PromotionTypes
              /\ \A m \in out.value : m.is_promotion => m.end_square[1] = last

\* Pawn.get_legal_moves returned promotions by a forward step and by a capture.
C30_Witness ==
    /\ lastOp = "Pawn.get_legal_moves"
    /\ Cardinality(LastRankDestinations(board, args.piece)) = 2
    /\ \E m \in out.value : m.is_promotion /\ m.captured_piece # NoPiece
    /\ \E m \in out.value : m.is_promotion /\ m.captured_piece = NoPiece

----------------------------------------------------------------------------
\* Bookkeeping of GameState over make_move and undo_last_move

\* C31: in every reachable GameState the last move is the final element of
\* the move history, or none when the history is empty.
C31_LastMoveIsHistoryTail ==
    last_move = IF Len(move_history) = 0
                THEN NoMove
                ELSE move_history[Len(move_history)]

\* A move was undone and an earlier move remains in the history.
C31_Witness ==
    /\ lastOp = "undo_last_move"
    /\ ret = "Move"
    /\ Len(move_history) > 0
    /\ last_move = move_history[Len(move_history)]

\* C34: in every reachable GameState the fifty-move counter is not negative.
C34_FiftyMoveCounterNotNegative == fifty_move_counter >= 0

\* The move history, the snapshot history and the count of moves played
\* agree, and White is to move exactly when that number is even.
HistoriesInStep ==
    /\ Len(move_history) = moves_played
    /\ Len(position_history) = moves_played
    /\ (current_player = WHITE <=> moves_played % 2 = 0)

\* The three records after a call, d moves further than before it.
Advanced(d) ==
    /\ moves_played' = moves_played + d
    /\ Len(move_history') = Len(move_history) + d
    /\ Len(position_history') = Len(position_history) + d

Standing(b) == Cardinality({sq \in Squares : b.squares[sq] # NoPiece})

\* The board as the i-th move of the history left it.
BoardAfter(i) == IF i < Len(board.log) THEN board.log[i + 1] ELSE board

\* The moves of the history by which a piece left the board.
RemovingMoves ==
    {i \in 1..Len(move_history) : Standing(BoardAfter(i)) < Standing(board.log[i])}

\* C38: the captured-piece history is as long as the number of moves in the
\* move history by which a piece was removed from the board.
C38_CapturedHistoryMatchesMoves ==
    Len(captured_pieces) = Cardinality(RemovingMoves)

\* The captured-piece history holds a piece although no move is left in the
\* move history.
CapturedPieceOutlivesItsMove ==
    /\ move_history = <<>>
    /\ Len(captured_pieces) > 0

----------------------------------------------------------------------------
\* Moves onto friendly pieces

\* The end square of the move holds a piece of the mover's colour.
EndsOnFriend(b, m) ==
    /\ b.squares[m.end_square] # NoPiece
    /\ b.obj[b.squares[m.end_square]].color = b.obj[m.moving_piece].color

\* C36: no move GameRules.get_legal_moves returns for a piece of the board,
\* and no move is_valid_move accepts, ends on a square occupied by a piece of
\* the mover's own colour.
C36_NoMoveOntoFriend ==
    \A p \in LivePieces(board) :
        /\ \A m \in get_legal_moves(board, p) : ~EndsOnFriend(board, m)
        /\ \A m \in CallerMoves(board, board.obj[p].color) :
              is_valid_move(board, m) => ~EndsOnFriend(board, m)

\* The same for the moves of the sliding pieces alone.
SlidingMovesAvoidFriends ==
    \A p \in LivePieces(board) :
        can_move_multiple_steps(board.obj[p].piece_type)
            => \A m \in get_legal_moves(board, p) : ~EndsOnFriend(board, m)

\* A move onto a friendly piece was made.
FriendCaptured ==
    /\ MadeMove
    /\ Len(board.captured_pieces) > 0
    /\ LET taken == board.captured_pieces[Len(board.captured_pieces)]
       IN board.obj[taken].color = board.obj[last_move.moving_piece].color

----------------------------------------------------------------------------
\* The call chain is_square_attacked -> get_legal_moves -> _get_castling_moves
\* -> is_valid_castling -> is_square_attacked, followed call by call.  An
\* outcome is "True", "False" or "RecursionError"; a call has several
\* outcomes where the order in which the set of pieces is walked decides.

\* all(not attacked) over squares tested in order, given the outcomes of
\* is_square_attacked on each: the walk goes on past a square only on False.
all_clear_outcomes(O) ==
    LET stops == {i \in 1..Len(O) : "False" \notin O[i]}
        last == IF stops = {} THEN Len(O)
                ELSE CHOOSE i \in stops : \A j \in stops : i <= j
    IN (IF \E i \in 1..last : "RecursionError" \in O[i]
        THEN {"RecursionError"} ELSE {})
       \cup (IF \E i \in 1..last : "True" \in O[i] THEN {"False"} ELSE {})
       \cup (IF stops = {} THEN {"True"} ELSE {})

RECURSIVE attack_outcomes(_, _, _, _)

\* GameRules.is_valid_castling with n nested is_square_attacked calls left.
castling_outcomes(b, m, n) ==
    LET king == b.obj[m.moving_piece]
        row == king.square[1]
        is_kingside == m.end_square[2] > m.start_square[2]
        rook_col == IF is_kingside THEN 7 ELSE 0
        path_cols == IF is_kingside THEN <<5, 6>> ELSE <<1, 2, 3>>
        rook == b.squares[<<row, rook_col>>]
        tested == <<king.square>>
                  \o [i \in 1..Len(path_cols) |-> <<row, path_cols[i]>>]
    IN IF \/ king.piece_type # KING \/ king.has_moved
          \/ rook = NoPiece
       THEN {"False"}
       ELSE IF b.obj[rook].piece_type # ROOK \/ b.obj[rook].has_moved
       THEN {"False"}
       ELSE IF \E i \in 1..Len(path_cols) : is_occupied(b, <<row, path_cols[i]>>)
       THEN {"False"}
       ELSE all_clear_outcomes(
                [i \in 1..Len(tested) |->
                    attack_outcomes(b, tested[i], opposite(king.color), n)])

\* GameRules._get_castling_moves for an unmoved king: the outcomes of its two
\* is_valid_castling calls, king's side first.
castling_pair_outcomes(b, king, n) ==
    LET sq == b.obj[king].square
        ks == castling_outcomes(b, RuleMove(b, sq, <<sq[1], 6>>, TRUE, FALSE), n)
        qs == castling_outcomes(b, RuleMove(b, sq, <<sq[1], 2>>, TRUE, FALSE), n)
    IN (IF "RecursionError" \in ks \/ ("RecursionError" \in qs /\ ks # {"RecursionError"})
        THEN {<<"RecursionError", "RecursionError">>} ELSE {})
       \cup ((ks \ {"RecursionError"}) \X (qs \ {"RecursionError"}))

\* any(move.end_square == square for move in get_legal_moves(piece))
piece_attack_outcomes(b, p, square, n) ==
    IF b.obj[p].piece_type = KING /\ ~b.obj[p].has_moved
    THEN LET sq == b.obj[p].square
             basic_hit == \E m \in get_basic_moves(b, p) : m.end_square = square
         IN {IF pair[1] = "RecursionError" THEN "RecursionError"
             ELSE IF \/ basic_hit
                     \/ pair[1] = "True" /\ square = <<sq[1], 6>>
                     \/ pair[2] = "True" /\ square = <<sq[1], 2>>
                  THEN "True" ELSE "False" :
                pair \in castling_pair_outcomes(b, p, n)}
    ELSE IF \E m \in get_legal_moves(b, p) : m.end_square = square
         THEN {"True"} ELSE {"False"}

\* GameRules.is_square_attacked with n nested calls left, this one included.
attack_outcomes(b, square, by_color, n) ==
    IF n = 0
    THEN {"RecursionError"}
    ELSE LET O == [p \in get_pieces(b, by_color) |->
                      piece_attack_outcomes(b, p, square, n - 1)]
         IN (IF \E p \in DOMAIN O : "RecursionError" \in O[p]
             THEN {"RecursionError"} ELSE {})
            \cup (IF \E p \in DOMAIN O : "True" \in O[p] THEN {"True"} ELSE {})
            \cup (IF \A p \in DOMAIN O : "False" \in O[p] THEN {"False"} ELSE {})

\* GameRules.get_legal_moves for a king: "Moves" when it returns.
king_moves_outcomes(b, king, n) ==
    IF b.obj[king].has_moved
    THEN {"Moves"}
    ELSE {IF pair[1] = "RecursionError" THEN "RecursionError" ELSE "Moves" :
             pair \in castling_pair_outcomes(b, king, n)}

\* Kings on e1 and e8, each corner with or without its rook, g1 and g8 with or
\* without a knight; no piece has moved.
Corners == {<<7, 0>>, <<7, 7>>, <<0, 0>>, <<0, 7>>}

KnightSquares == {<<7, 6>>, <<0, 6>>}

RECURSIVE PlaceAll(_, _, _)
PlaceAll(b, pt, squares) ==
    IF squares = {}
    THEN b
    ELSE LET sq == CHOOSE x \in squares :
                      \A y \in squares : x[1] * 8 + x[2] <= y[1] * 8 + y[2]
         IN PlaceAll(place_piece(b, pt, IF sq[1] = 7 THEN WHITE ELSE BLACK, sq),
                     pt, squares \ {sq})

InitAttack ==
    \E rooks \in SUBSET Corners, knights \in SUBSET KnightSquares :
        InitOn(PlaceAll(PlaceAll(Setup(EmptyBoard,
                                       <<<<KING, WHITE, <<7, 4>>>>,
                                         <<KING, BLACK, <<0, 4>>>>>>),
                                 ROOK, rooks),
                        KNIGHT, knights))

\* A call that leaves the GameState as it is and keeps its outcome in out.
AttackFrame(op, a, outcome) ==
    /\ calls' = calls + 1
    /\ lastOp' = op
    /\ ret' = outcome
    /\ args' = a
    /\ out' = [raised |-> IF outcome = "RecursionError" THEN outcome ELSE "none",
               value |-> outcome]
    /\ UNCHANGED <<gs, pre, stats, config, search>>

\* rules.is_square_attacked(square, by_color)
IsSquareAttacked ==
    /\ calls < AttackCalls
    /\ \E square \in {<<7, 4>>, <<7, 5>>, <<0, 3>>, <<4, 4>>}, by_color \in PieceColor :
          \E outcome \in attack_outcomes(board, square, by_color, StackLimit) :
              AttackFrame("is_square_attacked",
                          [op |-> "is_square_attacked", square |-> square,
                           by_color |-> by_color], outcome)

\* rules.get_legal_moves(king)
KingGetLegalMoves ==
    /\ calls < AttackCalls
    /\ \E color \in PieceColor :
          \E outcome \in king_moves_outcomes(board, get_king(board, color),
                                             StackLimit) :
              AttackFrame("get_legal_moves",
                          [op |-> "get_legal_moves",
                           piece |-> get_king(board, color)], outcome)

\* GameState._is_check, the first step of _update_game_status.
IsCheck ==
    /\ calls < AttackCalls
    /\ \E outcome \in attack_outcomes(board,
                                      board.obj[get_king(board, current_player)].square,
                                      opposite(current_player), StackLimit) :
          AttackFrame("_is_check", [op |-> "_is_check"], outcome)

NextAttack == IsSquareAttacked \/ KingGetLegalMoves \/ IsCheck

SpecAttack == InitAttack /\ [][NextAttack]_vars

\* The king of the colour has an unmoved rook of either colour in a corner
\* of its row and nothing between them.
ReadyToCastle(b, color) ==
    LET king == get_king(b, color)
        row == b.obj[king].square[1]
        Ready(rook_col, cols) ==
            /\ b.squares[<<row, rook_col>>] # NoPiece
            /\ b.obj[b.squares[<<row, rook_col>>]].piece_type = ROOK
            /\ ~b.obj[b.squares[<<row, rook_col>>]].has_moved
            /\ \A col \in cols : b.squares[<<row, col>>] = NoPiece
    IN /\ ~b.obj[king].has_moved
       /\ Ready(7, 5..6) \/ Ready(0, 1..3)

\* C33: is_square_attacked, get_legal_moves for a king and the check test of
\* the status recomputation return; none of them ends in unbounded
\* recursion, whichever pieces stand on the board.
C33_AttackTerminates ==
    lastOp \in {"is_square_attacked", "get_legal_moves", "_is_check"}
        => out.raised # "RecursionError"

\* The same for boards on which at most one king is ready to castle.
TerminatesUnlessBothReady ==
    (/\ lastOp \in {"is_square_attacked", "get_legal_moves", "_is_check"}
     /\ ~(ReadyToCastle(board, WHITE) /\ ReadyToCastle(board, BLACK)))
        => out.raised # "RecursionError"

\* A call returned on a board where one king is ready to castle.
ReturnedWithOneReady ==
    /\ lastOp = "is_square_attacked"
    /\ out.raised = "none"
    /\ ReadyToCastle(board, WHITE)
    /\ ~ReadyToCastle(board, BLACK)

----------------------------------------------------------------------------
\* pieces/king.py : King, its own castling moves

\* King._can_castle_kingside
can_castle_kingside(b, king, row) ==
    LET rook == b.squares[<<row, 7>>]
    IN /\ \A col \in {5, 6} : b.squares[<<row, col>>] = NoPiece
       /\ rook # NoPiece
       /\ b.obj[rook].piece_type = ROOK
       /\ b.obj[rook].color = b.obj[king].color
       /\ ~b.obj[rook].has_moved

\* King._can_castle_queenside
can_castle_queenside(b, king, row) ==
    LET rook == b.squares[<<row, 0>>]
    IN /\ \A col \in {1, 2, 3} : b.squares[<<row, col>>] = NoPiece
       /\ rook # NoPiece
       /\ b.obj[rook].piece_type = ROOK
       /\ b.obj[rook].color = b.obj[king].color
       /\ ~b.obj[rook].has_moved

\* King._get_castle_moves as King.get_legal_moves calls it, for an unmoved
\* king only.
get_castle_moves(b, king) ==
    LET base_row == IF b.obj[king].color = WHITE THEN 7 ELSE 0
        king_col == 4
        To(col) == Move(b.obj[king].square, <<base_row, col>>, king, NoPiece,
                        TRUE, FALSE, FALSE, NoType)
    IN IF b.obj[king].has_moved
       THEN {}
       ELSE (IF can_castle_kingside(b, king, base_row)
             THEN {To(king_col + 2)} ELSE {})
            \cup (IF can_castle_queenside(b, king, base_row)
                  THEN {To(king_col - 2)} ELSE {})

\* The castling moves of a list, each as the pair of its squares.
CastlingPairs(moves) ==
    {<<m.start_square, m.end_square>> : m \in {x \in moves : x.is_castle}}

\* A square the king stands on or crosses when castling to either side (the
\* c to g files of its row) is attacked by the opponent.
KingPathAttacked(b, king) ==
    \E col \in 2..6 :
        is_square_attacked(b, <<b.obj[king].square[1], col>>,
                           opposite(b.obj[king].color))

\* C32: for an unmoved king every castling move GameRules.get_legal_moves
\* offers is offered by King.get_legal_moves too, and when no square on the
\* king's path is attacked the two offer the same castling moves.
C32_CastlingGeneratorsAgree ==
    \A king \in Kings(board) :
        ~board.obj[king].has_moved
            => LET rules == CastlingPairs(get_legal_moves(board, king))
                   own == CastlingPairs(get_castle_moves(board, king))
               IN /\ rules \subseteq own
                  /\ ~KingPathAttacked(board, king) => rules = own

\* The first half alone: what GameRules offers, the king offers.
RulesCastlingOfferedByKing ==
    \A king \in Kings(board) :
        ~board.obj[king].has_moved
            => CastlingPairs(get_legal_moves(board, king))
                  \subseteq CastlingPairs(get_castle_moves(board, king))

\* Both generators offer castling on both sides.
BothGeneratorsOfferBothSides ==
    \E king \in Kings(board) :
        /\ ~board.obj[king].has_moved
        /\ Cardinality(CastlingPairs(get_legal_moves(board, king))) = 2
        /\ Cardinality(CastlingPairs(get_castle_moves(board, king))) = 2

----------------------------------------------------------------------------
\* Castling rights over make_move and undo_last_move, on the castling
\* positions.

\* The moves handed to make_move: the castling moves and the moves to a
\* neighbouring square that GameRules offers the player.
RightsMoves(b, player) ==
    {m \in CastleMoves(b, player) :
        \/ m.is_castle
        \/ /\ Abs(m.end_square[1] - m.start_square[1]) <= 1
           /\ Abs(m.end_square[2] - m.start_square[2]) <= 1}

RightsMove ==
    /\ calls < RightsCalls
    /\ calls' = calls + 1
    /\ \E m \in RightsMoves(board, current_player) : make_move(m)

RightsUndo ==
    /\ calls < RightsCalls
    /\ calls' = calls + 1
    /\ undo_last_move

NextRights == RightsMove \/ RightsUndo

SpecRights == InitCastle /\ [][NextRights]_vars

\* One of the generators offers the king castling towards the file: the move
\* passes is_valid_castling, or GameRules.get_legal_moves or
\* King.get_legal_moves returns it.
OffersCastling(b, king, col) ==
    LET sq == b.obj[king].square
    IN \/ col # sq[2] /\ is_valid_castling(b, CastlingMove(b, king, col))
       \/ <<sq, <<sq[1], col>>>> \in CastlingPairs(get_legal_moves(b, king))
       \/ <<sq, <<sq[1], col>>>> \in CastlingPairs(get_castle_moves(b, king))

\* The corner a king castles with when going to the file.
CornerOf(b, king, col) == <<b.obj[king].square[1], IF col = 6 THEN 7 ELSE 0>>

\* The pieces moved by the moves of the history, the rook of a castling move
\* included.
MovedByHistory ==
    {move_history[i].moving_piece : i \in 1..Len(move_history)}
    \cup {board.log[i].squares[<<move_history[i].start_square[1],
                                 IF move_history[i].end_square[2]
                                        > move_history[i].start_square[2]
                                 THEN 7 ELSE 0>>] :
             i \in {j \in 1..Len(move_history) : move_history[j].is_castle}}

----------------------------------------------------------------------------
\* The MCTS tree between simulations

\* The visits of the nodes of a list, added up.
RECURSIVE SumVisits(_, _)
SumVisits(nodes, children) ==
    IF children = <<>> THEN 0
    ELSE nodes[Head(children)].visits + SumVisits(nodes, Tail(children))

\* The number of legal moves of the state a node was created with.
MovesAtCreation(node) ==
    Cardinality(gs_get_legal_moves(node.created.board, node.created.current_player))

\* C39: after every completed simulation every node has 0 <= wins <= visits
\* (wins counted in half points here), the root has as many visits as
\* simulations were run, every other node has at least one visit, every node
\* has at least as many visits as its children together, and its children
\* and untried moves together are as many as the legal moves of the state it
\* was created with.
C39_TreeInvariant ==
    (search.op = "mcts" /\ At({"loop", "done"}))
        => \A n \in 1..Len(search.nodes) :
              LET node == search.nodes[n]
              IN /\ 0 <= node.wins
                 /\ node.wins <= 2 * node.visits
                 /\ n = 1 => node.visits = search.simulation_count
                 /\ n # 1 => node.visits >= 1
                 /\ node.visits >= SumVisits(search.nodes, node.children)
                 /\ Len(node.children) + Cardinality(node.untried_moves)
                       = MovesAtCreation(node)

\* The whole cap of simulations has been run and the tree holds a grandchild
\* of the root and a node with moves left to try.
C39_Witness ==
    /\ search.op = "mcts"
    /\ At({"loop", "done"})
    /\ search.simulation_count = MaxSimulations
    /\ \E n \in 1..Len(search.nodes) :
          /\ Ancestor(search.nodes, n, 2) = 1
          /\ search.nodes[n].visits >= 1
    /\ \E n \in 1..Len(search.nodes) :
          /\ search.nodes[n].untried_moves # {}
          /\ search.nodes[n].children # <<>>

====
